---- MODULE Spec2Model ----
(***************************************************************************)
(* cloudformation-deploy: the stack-operation lifecycle coordinator        *)
(* (CloudFormationOperation.updateEventData / awaitCompletion) and the      *)
(* deploy, update and previewUpdate workflows that drive it.               *)
(***************************************************************************)
EXTENDS Integers, Sequences, FiniteSets, TLC

\* ------------------------------------------------------------------------
\* Bounds of the model.
\* ------------------------------------------------------------------------

\* Longest event history the provider builds for one stack.
MaxHistory == 3
\* Most polls (describeStackEvents calls) of one awaitCompletion loop.
MaxPolls == 4
\* Events per page of the provider's describeStackEvents response.
PageSize == 2
\* Most runs of the final function of one loop.
MaxResolutions == 2
\* Most events of nested resources in the scripted create.
MaxNested == 1
\* Most events the provider records for one operation of a workflow.
MaxOperationEvents == 2
\* Stack summaries per page of the provider's listStacks response.
ListPageSize == 2

\* Most provider calls one of the operations side by side issues.
MaxCalls == 2

\* Most user-supplied tags of a configuration given to getTags.
MaxTags == 2

\* Most characters of a template string after its scheme or opening.
MaxRest == 1

\* ------------------------------------------------------------------------
\* lib/constants.js
\* ------------------------------------------------------------------------

onDeployFailure == [DELETE |-> "DELETE", DO_NOTHING |-> "DO_NOTHING"]

priorInstance == [DELETE |-> "DELETE", DO_NOTHING |-> "DO_NOTHING"]

resourceStatus ==
  [CREATE_COMPLETE |-> "CREATE_COMPLETE",
   CREATE_FAILED |-> "CREATE_FAILED",
   DELETE_COMPLETE |-> "DELETE_COMPLETE",
   DELETE_FAILED |-> "DELETE_FAILED",
   UPDATE_COMPLETE |-> "UPDATE_COMPLETE",
   UPDATE_ROLLBACK_COMPLETE |-> "UPDATE_ROLLBACK_COMPLETE",
   UPDATE_ROLLBACK_FAILED |-> "UPDATE_ROLLBACK_FAILED"]

resourceType == [STACK |-> "AWS::CloudFormation::Stack"]

tag ==
  [STACK_BASE_NAME |-> "cloudformation-deploy:stackBaseName",
   STACK_NAME |-> "cloudformation-deploy:stackName",
   VERSION |-> "cloudformation-deploy:version"]

type == [CREATE_STACK |-> "create", DELETE_STACK |-> "delete", UPDATE_STACK |-> "update"]

\* The change-set statuses awaited by PreviewUpdate.
changeSetStatus == [CREATE_COMPLETE |-> "CREATE_COMPLETE", FAILED |-> "FAILED"]

\* ------------------------------------------------------------------------
\* Values of the provider and of JavaScript.
\* ------------------------------------------------------------------------

\* The value of an unset property.
Undefined == "undefined"

\* Statuses the provider reports that lib/constants.js does not list.
InProgressStatuses == {"CREATE_IN_PROGRESS", "DELETE_IN_PROGRESS"}

KnownStatuses == {resourceStatus[k] : k \in DOMAIN resourceStatus}

\* A resource type of a nested resource of a stack.
NestedType == "AWS::EC2::Instance"

\* The events a provider appends to a stack's history: stack-level events of
\* every status, events of a nested resource that succeeded or failed.
StackLevelEvents ==
  [ResourceType : {resourceType.STACK}, ResourceStatus : KnownStatuses \cup InProgressStatuses]

NestedEvents ==
  [ResourceType : {NestedType}, ResourceStatus : {"CREATE_COMPLETE", "CREATE_FAILED"}]

EventKinds == StackLevelEvents \cup NestedEvents

NoEvent == [EventId |-> 0, ResourceType |-> "", ResourceStatus |-> ""]

\* An Error object: the parts of its message, outermost first, and the event
\* it serializes into the message (NoEvent when it names none).
NoError == [msgs |-> <<>>, event |-> NoEvent]

MkError(msg, event) == [msgs |-> <<msg>>, event |-> event]

\* A wrapper that passes the inner error on as it is.
WrapErrorPassesOn(msg, error) == error

\* new Error(util.format(msg + ': %s', error)).
WrapError(msg, error) == [msgs |-> <<msg>> \o error.msgs, event |-> error.event]

IsError(e) == e # NoError

\* An unset stack description and an unset change-set description.
NoDescription == [StackId |-> "", StackName |-> <<>>, Tags |-> <<>>, StackStatus |-> ""]

NoChangeSet == [Status |-> "", Changes |-> <<>>]

\* describePriorStacks / deletePriorStacks before they run.
\* callback is what describePriorStacks handed to its callback: whether it
\* called back, the error, whether it passed a second argument, and the
\* descriptions it passed.
PriorCallback(error, data, descriptions) ==
  [called |-> TRUE, error |-> error, data |-> data, stackDescriptions |-> descriptions]

NoPrior ==
  [page |-> 0, stackSummaries |-> <<>>, stackDescriptions |-> <<>>, idx |-> 0, del |-> 0,
   callback |-> [called |-> FALSE, error |-> NoError, data |-> FALSE,
                 stackDescriptions |-> <<>>]]

\* ------------------------------------------------------------------------
\* Sequence helpers (lodash / Array.prototype).
\* ------------------------------------------------------------------------

Reverse(s) == [i \in 1..Len(s) |-> s[Len(s) + 1 - i]]

\* Array.prototype.slice(n).
Slice(s, n) == SubSeq(s, n + 1, Len(s))

\* _.last(s).
Last(s) == s[Len(s)]

IsPrefix(s, t) == Len(s) <= Len(t) /\ SubSeq(t, 1, Len(s)) = s

\* ------------------------------------------------------------------------
\* State.
\* ------------------------------------------------------------------------

VARIABLES
  workflow,     \* the entry point that was called
  config,       \* this.config of the operation
  opType,       \* the type argument of the running awaitCompletion
  stackData,    \* the progress records made by getStackData, in creation order
  cur,          \* the record the running awaitCompletion was given
  pc,           \* the pending timer or provider call the operation waits on
  polls,        \* fetches issued by the running awaitCompletion loop
  stackEvents,  \* provider: event history of each stack id, oldest first
  onEventCalls, \* per record, the arguments of the onEventFn invocations
  awaitCalls,   \* invocations of the caller's callback of the running loop
  awaitError,   \* the error argument of the first such invocation
  fetchErrors,  \* failed fetches of the running loop
  resolutions,  \* runs of the final function of the running loop's async.until
  account,      \* provider: the stacks of the account, in listing order
  result,       \* the result object of the workflow
  stages,       \* the stages of async.series started so far
  requests,     \* the provider requests issued so far, fetches of polls excepted
  prior,        \* describePriorStacks / deletePriorStacks: their local variables
  changeSet,    \* PreviewUpdate.awaitCompletion: its local variable changeSet
  changeSetProvider, \* provider: the description of the change set
  userCalls,    \* invocations of the callback given to deploy/update/previewUpdate
  userArgs,     \* the arguments of the first such invocation
  finals,       \* runs of the final function of the workflow's async.series
  operations,   \* the operation objects constructed side by side in one process
  awsClients,   \* the AWS.CloudFormation objects made so far, in creation order
  providerCalls,\* the provider calls issued, each with the client it went through
  utilityArgs,  \* the configuration and the template given to the utilities
  utilityOut    \* what getTags returned and the request the template was added to

awaitVars == <<awaitCalls, awaitError, resolutions>>

clientVars == <<operations, awsClients, providerCalls>>

utilityVars == <<utilityArgs, utilityOut>>

wfVars == <<account, result, stages, requests, prior, changeSet, changeSetProvider,
            userCalls, userArgs, finals>>

vars == <<workflow, config, opType, stackData, cur, pc, polls, stackEvents,
          onEventCalls, awaitCalls, awaitError, fetchErrors, resolutions,
          account, result, stages, requests, prior, changeSet, changeSetProvider,
          userCalls, userArgs, finals, operations, awsClients, providerCalls,
          utilityArgs, utilityOut>>

\* ------------------------------------------------------------------------
\* CloudFormation client (lib/cloudFormation.js).
\* ------------------------------------------------------------------------

\* The provider's paginated answer: the history newest first, PageSize events
\* per page, linked by NextToken.
RECURSIVE ProviderPages(_)
ProviderPages(newestFirst) ==
  IF Len(newestFirst) <= PageSize THEN <<newestFirst>>
  ELSE <<SubSeq(newestFirst, 1, PageSize)>> \o
       ProviderPages(SubSeq(newestFirst, PageSize + 1, Len(newestFirst)))

RECURSIVE ConcatPages(_)
ConcatPages(pages) ==
  IF Len(pages) = 0 THEN <<>> ELSE Head(pages) \o ConcatPages(Tail(pages))

\* A describeStackEvents that does not follow NextToken: the first page reversed.
describeStackEventsFirstPage(history) == Reverse(Head(ProviderPages(Reverse(history))))

\* CloudFormation.prototype.describeStackEvents: follow NextToken, concatenate
\* the pages, reverse.
describeStackEvents(history) == Reverse(ConcatPages(ProviderPages(Reverse(history))))

\* ------------------------------------------------------------------------
\* CloudFormationOperation (lib/cloudFormationOperation.js).
\* ------------------------------------------------------------------------

getStackData(stackName, stackId) ==
  [stackName |-> stackName, stackId |-> stackId, status |-> Undefined, events |-> <<>>]

\* updateEventData: _.dropRightWhile(newEvents, function (event) { return
\* event.ResourceType !== constants.resourceType.STACK; }).
RECURSIVE dropRightWhileNotStack(_)
dropRightWhileNotStack(s) ==
  IF Len(s) = 0 THEN s
  ELSE IF s[Len(s)].ResourceType # resourceType.STACK
       THEN dropRightWhileNotStack(SubSeq(s, 1, Len(s) - 1))
       ELSE s

\* A slice that starts at the first event: every event counts as new.
newEventsOfAll(data, events) == Slice(events, 0)

\* updateEventData: var newEvents = events.slice(stackData.events.length).
newEventsOf(data, events) == Slice(events, Len(data.events))

\* A status that is unset again when a poll brings no new stack-level event.
statusAfterForgets(data, events) ==
  LET newEvents == dropRightWhileNotStack(newEventsOf(data, events))
  IN IF Len(newEvents) > 0 THEN Last(newEvents).ResourceStatus ELSE Undefined

\* The status of the last new event, whatever its resource type.
statusAfterLastEvent(data, events) ==
  LET newEvents == newEventsOf(data, events)
  IN IF Len(newEvents) > 0 THEN Last(newEvents).ResourceStatus ELSE data.status

\* updateEventData: the status after the poll.
statusAfter(data, events) ==
  LET newEvents == dropRightWhileNotStack(newEventsOf(data, events))
  IN IF Len(newEvents) > 0 THEN Last(newEvents).ResourceStatus ELSE data.status

\* A success branch that keeps only the events that are new in this poll.
updateEventDataKeepsNew(data, events) ==
  [data EXCEPT !.events = newEventsOf(data, events), !.status = statusAfter(data, events)]

\* updateEventData, success branch: the record after the poll.
updateEventData(data, events) ==
  [data EXCEPT !.events = events, !.status = statusAfter(data, events)]

\* An error branch that resets the status.
updateEventDataErrorClears(data) == [data EXCEPT !.status = Undefined]

\* updateEventData, error branch: the record after the poll.
updateEventDataError(data) == data

\* A completion test that stops a create on CREATE_FAILED under either policy.
isCompleteIgnoringPolicy(t, cfg, status) ==
  IF t = type.CREATE_STACK
  THEN status \in {resourceStatus.CREATE_COMPLETE, resourceStatus.CREATE_FAILED,
                   resourceStatus.DELETE_COMPLETE, resourceStatus.DELETE_FAILED}
  ELSE IF t = type.DELETE_STACK
  THEN status \in {resourceStatus.DELETE_COMPLETE, resourceStatus.DELETE_FAILED}
  ELSE status \in {resourceStatus.UPDATE_COMPLETE,
                   resourceStatus.UPDATE_ROLLBACK_COMPLETE,
                   resourceStatus.UPDATE_ROLLBACK_FAILED}

\* awaitCompletion: isComplete().
isComplete(t, cfg, status) ==
  IF t = type.CREATE_STACK
  THEN IF cfg.onDeployFailure = onDeployFailure.DELETE
       THEN status \in {resourceStatus.CREATE_COMPLETE,
                        resourceStatus.DELETE_COMPLETE,
                        resourceStatus.DELETE_FAILED}
       ELSE status \in {resourceStatus.CREATE_COMPLETE,
                        resourceStatus.CREATE_FAILED}
  ELSE IF t = type.DELETE_STACK
  THEN status \in {resourceStatus.DELETE_COMPLETE, resourceStatus.DELETE_FAILED}
  ELSE status \in {resourceStatus.UPDATE_COMPLETE,
                   resourceStatus.UPDATE_ROLLBACK_COMPLETE,
                   resourceStatus.UPDATE_ROLLBACK_FAILED}

\* /FAILED/.test(status) over the statuses of the model.
MatchesFAILED(status) ==
  status \in {"CREATE_FAILED", "DELETE_FAILED", "UPDATE_ROLLBACK_FAILED", "UPDATE_FAILED",
              "ROLLBACK_FAILED", "FAILED"}

\* _.find(stackData.events, ...): the first event whose status matches /FAILED/.
failureEvent(events) ==
  LET hits == {i \in 1..Len(events) : MatchesFAILED(events[i].ResourceStatus)}
  IN IF hits = {} THEN NoEvent
     ELSE events[CHOOSE i \in hits : \A j \in hits : i <= j]

\* A classification that takes a completed rollback of an update for a success.
awaitOutcomeRollbackSucceeds(t, data) ==
  IF t = type.CREATE_STACK /\ data.status = resourceStatus.CREATE_COMPLETE THEN NoError
  ELSE IF t = type.DELETE_STACK /\ data.status = resourceStatus.DELETE_COMPLETE THEN NoError
  ELSE IF t = type.UPDATE_STACK /\ data.status \in {resourceStatus.UPDATE_COMPLETE,
                                                    resourceStatus.UPDATE_ROLLBACK_COMPLETE}
  THEN NoError
  ELSE IF failureEvent(data.events) # NoEvent
       THEN MkError("Stack operation failed on the following event", failureEvent(data.events))
       ELSE MkError("Stack operation failed, but could not identify failure event.", NoEvent)

\* A classification that takes a completed delete for a success of any kind.
awaitOutcomeDeleteSucceeds(t, data) ==
  IF data.status \in {resourceStatus.CREATE_COMPLETE, resourceStatus.DELETE_COMPLETE,
                      resourceStatus.UPDATE_COMPLETE}
  THEN NoError
  ELSE MkError("Stack operation failed, but could not identify failure event.", NoEvent)

\* awaitCompletion: the final function of async.until when the loop ended
\* without an error; the error it hands to the callback (NoError for none).
awaitOutcome(t, data) ==
  IF t = type.CREATE_STACK /\ data.status = resourceStatus.CREATE_COMPLETE THEN NoError
  ELSE IF t = type.DELETE_STACK /\ data.status = resourceStatus.DELETE_COMPLETE THEN NoError
  ELSE IF t = type.UPDATE_STACK /\ data.status = resourceStatus.UPDATE_COMPLETE THEN NoError
  ELSE IF failureEvent(data.events) # NoEvent
       THEN MkError("Stack operation failed on the following event", failureEvent(data.events))
       ELSE MkError("Stack operation failed, but could not identify failure event.", NoEvent)

\* A wrapper that runs the caller's callback on every invocation.
onceUnguarded(calls) == calls + 1

\* _.once(callback): how often the caller's callback has run after one more
\* invocation of the wrapper, given how often it had run before; the wrapper
\* runs it only on its first invocation.
once(calls) == IF calls = 0 THEN 1 ELSE calls

\* ------------------------------------------------------------------------
\* lib/utilities.js and lib/configValidator.js.
\* ------------------------------------------------------------------------

\* The characters /[^\-a-z0-9]/ig leaves in place.
ValidNameChars ==
  {"a", "b", "c", "d", "e", "f", "g", "h", "i", "j", "k", "l", "m", "n", "o", "p", "q",
   "r", "s", "t", "u", "v", "w", "x", "y", "z", "0", "1", "2", "3", "4", "5", "6", "7",
   "8", "9", "-"}

\* utilities.determineStackName; names are sequences of characters.
determineStackName(cfg) ==
  IF cfg.stackName # <<>> THEN cfg.stackName
  ELSE LET stackName == cfg.baseName \o <<"-">> \o cfg.deployId
       IN [i \in 1..Len(stackName) |->
             IF stackName[i] \in ValidNameChars THEN stackName[i] ELSE "-"]

\* A match on the base name without the dash.
baseNameMatchesStackNameNoDash(baseName, stackName) == IsPrefix(baseName, stackName)

\* utilities.baseNameMatchesStackName: stackName.indexOf(baseName + '-') === 0.
baseNameMatchesStackName(baseName, stackName) == IsPrefix(baseName \o <<"-">>, stackName)

\* A getTags that puts the system-managed tags first and always adds the
\* base-name tag.
getTagsSystemFirst(cfg) ==
  <<[Key |-> tag.STACK_NAME, Value |-> determineStackName(cfg)],
    [Key |-> tag.STACK_BASE_NAME, Value |-> cfg.baseName]>>
  \o (IF cfg.version # <<>> THEN <<[Key |-> tag.VERSION, Value |-> cfg.version]>> ELSE <<>>)
  \o cfg.tags

\* utilities.getTags.
getTags(cfg) ==
  cfg.tags
  \o <<[Key |-> tag.STACK_NAME, Value |-> determineStackName(cfg)]>>
  \o (IF cfg.baseName # <<>> THEN <<[Key |-> tag.STACK_BASE_NAME, Value |-> cfg.baseName]>> ELSE <<>>)
  \o (IF cfg.version # <<>> THEN <<[Key |-> tag.VERSION, Value |-> cfg.version]>> ELSE <<>>)

\* configValidator.validate against the shared part of the schemas that the
\* model varies: progressCheckIntervalInSeconds is a number, minimum 1.
validateShared(cfg) ==
  IF cfg.progressCheckIntervalInSeconds < 1 THEN <<"progressCheckIntervalInSeconds">> ELSE <<>>

\* configValidator.validateDeployConfig: baseName, version and deployId are
\* required strings of minLength 1.
validateDeployConfig(cfg) ==
  validateShared(cfg)
  \o (IF cfg.baseName = <<>> THEN <<"baseName">> ELSE <<>>)
  \o (IF cfg.version = <<>> THEN <<"version">> ELSE <<>>)
  \o (IF cfg.deployId = <<>> THEN <<"deployId">> ELSE <<>>)

\* configValidator.validateUpdateConfig: stackName is a required string of
\* minLength 1.
validateUpdateConfig(cfg) ==
  validateShared(cfg) \o (IF cfg.stackName = <<>> THEN <<"stackName">> ELSE <<>>)

\* configValidator.validatePreviewUpdateConfig: changeSetName and stackName are
\* required strings of minLength 1.
validatePreviewUpdateConfig(cfg) ==
  validateShared(cfg)
  \o (IF cfg.changeSetName = <<>> THEN <<"changeSetName">> ELSE <<>>)
  \o (IF cfg.stackName = <<>> THEN <<"stackName">> ELSE <<>>)

\* new Error(JSON.stringify(errors)).
ValidationError(errors) == [msgs |-> errors, event |-> NoEvent]

\* ------------------------------------------------------------------------
\* The provider's account, as the CloudFormation client shows it.
\* ------------------------------------------------------------------------

\* CloudFormation.stackStatusFilter.
stackStatusFilter ==
  {"CREATE_IN_PROGRESS", "CREATE_FAILED", "CREATE_COMPLETE", "ROLLBACK_IN_PROGRESS",
   "ROLLBACK_FAILED", "ROLLBACK_COMPLETE", "DELETE_FAILED"}

\* The stack-level events of a sequence of events, and the others.
StackLevel(events) == SelectSeq(events, LAMBDA e : e.ResourceType = resourceType.STACK)

Nested(events) == SelectSeq(events, LAMBDA e : e.ResourceType # resourceType.STACK)

\* The status the provider reports for a stack with the given history.
StackStatusOf(history) ==
  IF Len(StackLevel(history)) = 0 THEN "CREATE_IN_PROGRESS"
  ELSE Last(StackLevel(history)).ResourceStatus

\* The provider's description and summary of a stack of the account.
Description(stack) ==
  [StackId |-> stack.StackId, StackName |-> stack.StackName, Tags |-> stack.Tags,
   StackStatus |-> StackStatusOf(stackEvents[stack.StackId])]

\* client.describeStacks({StackName: stackId}): result.Stacks.
DescribeStacks(stackId) ==
  LET found == SelectSeq(account, LAMBDA st : st.StackId = stackId)
  IN [i \in 1..Len(found) |-> Description(found[i])]

\* client.listStacks({StackStatusFilter}): every matching summary, in order.
ListedStacks ==
  LET all == [i \in 1..Len(account) |-> Description(account[i])]
  IN SelectSeq(all, LAMBDA d : d.StackStatus \in stackStatusFilter)

\* One page of the listing, and whether it carries a NextToken.
ListPage(k) ==
  SubSeq(ListedStacks, (k - 1) * ListPageSize + 1,
         IF k * ListPageSize < Len(ListedStacks) THEN k * ListPageSize ELSE Len(ListedStacks))

HasNextToken(k) == k * ListPageSize < Len(ListedStacks)

\* A filter that matches on the name alone.
filterSummariesByName(summaries, stackBaseName, createdStackId) ==
  SelectSeq(summaries, LAMBDA stackSummary :
    baseNameMatchesStackName(stackBaseName, stackSummary.StackName))

\* describePriorStacks: the filter over the summaries of one page.
filterSummaries(summaries, stackBaseName, createdStackId) ==
  SelectSeq(summaries, LAMBDA stackSummary :
    baseNameMatchesStackName(stackBaseName, stackSummary.StackName)
    /\ stackSummary.StackId # createdStackId)

\* A tag check that takes every described stack for a prior stack.
isPriorStackAny(stackDescription, stackBaseName) == TRUE

\* describePriorStacks: _.some(stackDescription.Tags, ...) against the exact
\* base-name tag.
isPriorStack(stackDescription, stackBaseName) ==
  \E i \in 1..Len(stackDescription.Tags) :
    stackDescription.Tags[i] = [Key |-> tag.STACK_BASE_NAME, Value |-> stackBaseName]

\* ------------------------------------------------------------------------
\* async.series of deploy / update / previewUpdate.
\* ------------------------------------------------------------------------

\* The stages of a series, in the order they were started, each with its
\* state: running, ok (called back without error) or failed.
Started(stgs, stage) == Append(stgs, [stage |-> stage, state |-> "running"])

Completed(stgs) == [stgs EXCEPT ![Len(stgs)].state = "ok"]

Failed(stgs) == [stgs EXCEPT ![Len(stgs)].state = "failed"]

\* A request to the provider, as the client issues it.
Request(call, stackId) == [call |-> call, id |-> stackId]

\* A final function that hands over the result without recording the error.
SeriesFinalDropsError(error, res, heap) ==
  /\ result' = res
  /\ finals' = finals + 1
  /\ userCalls' = once(userCalls)
  /\ userArgs' = IF once(userCalls) # userCalls
                 THEN [error |-> error, result |-> res, stackData |-> heap]
                 ELSE userArgs
  /\ pc' = "done"

\* The final function of async.series: push the error, hand error and result
\* to the once-wrapped callback. heap is stackData as the stage leaves it.
SeriesFinal(error, res, heap) ==
  LET r == IF IsError(error) THEN [res EXCEPT !.errors = Append(@, error)] ELSE res
  IN /\ result' = r
     /\ finals' = finals + 1
     /\ userCalls' = once(userCalls)
     /\ userArgs' = IF once(userCalls) # userCalls
                    THEN [error |-> error, result |-> r, stackData |-> heap]
                    ELSE userArgs
     /\ pc' = "done"

\* A stage calls back with an error: the series runs its final function.
StageFails(error, res, heap) ==
  /\ stages' = Failed(stages)
  /\ SeriesFinal(error, res, heap)

\* The last stage calls back without an error.
SeriesEnds(res, heap) ==
  /\ stages' = Completed(stages)
  /\ SeriesFinal(NoError, res, heap)

\* A stage calls back without an error and the next stage issues a request.
NextStage(stage, request) ==
  /\ stages' = Started(Completed(stages), stage)
  /\ requests' = Append(requests, request)
  /\ pc' = request.call

\* deletePriorStacks, eachSeries iteration j: make the progress record of the
\* prior stack, push it to result.deleteStack, and issue deleteStack.
StartDelete(j, descriptions, heap) ==
  /\ stackData' = Append(heap, getStackData(descriptions[j].StackName, descriptions[j].StackId))
  /\ result' = [result EXCEPT !.deleteStack = Append(@, Len(heap) + 1)]
  /\ requests' = Append(requests, Request("deleteStack", descriptions[j].StackId))
  /\ pc' = "deleteStack"

\* An awaitCompletion callback of deploy that carries on after an error.
DeployAwaitCallbackContinues(error, heap) ==
  /\ stackData' = heap
  /\ stages' = Started(IF IsError(error) THEN Failed(stages) ELSE Completed(stages),
                       "describeStack")
  /\ requests' = Append(requests, Request("describeStack", heap[1].stackId))
  /\ pc' = "describeStack"
  /\ UNCHANGED <<result, userCalls, userArgs, finals>>
  /\ UNCHANGED <<account, prior, changeSet, changeSetProvider>>

\* deploy: the callback its awaitCompletion stage gives to awaitCompletion.
DeployAwaitCallback(error, heap) ==
  /\ stackData' = heap
  /\ IF IsError(error)
     THEN /\ StageFails(
               IF /\ config.onDeployFailure = onDeployFailure.DO_NOTHING
                  /\ heap[1].status = resourceStatus.CREATE_FAILED
               THEN WrapError("Stack creation failed. Per configuration no attempt was made to delete the failed stack", error)
               ELSE IF heap[1].status = resourceStatus.DELETE_FAILED
               THEN WrapError("Stack creation failed. Deletion of the stack failed as well", error)
               ELSE IF heap[1].status = resourceStatus.DELETE_COMPLETE
               THEN WrapError("Stack creation failed. The failed stack was deleted", error)
               ELSE error,
               result, heap)
          /\ UNCHANGED requests
     ELSE /\ NextStage("describeStack", Request("describeStack", heap[1].stackId))
          /\ UNCHANGED <<result, userCalls, userArgs, finals>>
  /\ UNCHANGED <<account, prior, changeSet, changeSetProvider>>

\* A deletePriorStacks that goes on to the next prior stack after a failed
\* deletion.
DeleteAwaitCallbackGoesOn(error, heap) ==
  /\ IF prior.del < Len(prior.stackDescriptions)
     THEN /\ StartDelete(prior.del + 1, prior.stackDescriptions, heap)
          /\ prior' = [prior EXCEPT !.del = @ + 1]
          /\ UNCHANGED <<stages, userCalls, userArgs, finals>>
     ELSE IF IsError(error)
     THEN /\ StageFails(error, result, heap)
          /\ stackData' = heap
          /\ UNCHANGED <<requests, prior>>
     ELSE /\ SeriesEnds(result, heap)
          /\ stackData' = heap
          /\ UNCHANGED <<requests, prior>>
  /\ UNCHANGED <<account, changeSet, changeSetProvider>>

\* deploy: the callback Deploy.deleteStack gives to awaitCompletion, followed by
\* the next iteration of deletePriorStacks' eachSeries or its end.
DeleteAwaitCallback(error, heap) ==
  /\ IF IsError(error)
     THEN /\ StageFails(error, result, heap)
          /\ stackData' = heap
          /\ UNCHANGED <<requests, prior>>
     ELSE IF prior.del < Len(prior.stackDescriptions)
     THEN /\ StartDelete(prior.del + 1, prior.stackDescriptions, heap)
          /\ prior' = [prior EXCEPT !.del = @ + 1]
          /\ UNCHANGED <<stages, userCalls, userArgs, finals>>
     ELSE /\ SeriesEnds(result, heap)
          /\ stackData' = heap
          /\ UNCHANGED <<requests, prior>>
  /\ UNCHANGED <<account, changeSet, changeSetProvider>>

\* An awaitCompletion stage of update that words the two rollback outcomes the
\* other way round.
UpdateAwaitCallbackSwapsWording(error, heap) ==
  /\ stackData' = heap
  /\ IF IsError(error)
     THEN /\ StageFails(
               IF heap[1].status = resourceStatus.UPDATE_ROLLBACK_COMPLETE
               THEN WrapError("Stack update failed. The rollback failed as well", error)
               ELSE IF heap[1].status = resourceStatus.UPDATE_ROLLBACK_FAILED
               THEN WrapError("Stack update failed. The rollback succeeded", error)
               ELSE error,
               result, heap)
          /\ UNCHANGED requests
     ELSE /\ NextStage("describeStack", Request("describeStack", heap[1].stackId))
          /\ UNCHANGED <<result, userCalls, userArgs, finals>>
  /\ UNCHANGED <<account, prior, changeSet, changeSetProvider>>

\* update: the callback its awaitCompletion stage gives to awaitCompletion.
UpdateAwaitCallback(error, heap) ==
  /\ stackData' = heap
  /\ IF IsError(error)
     THEN /\ StageFails(
               IF heap[1].status = resourceStatus.UPDATE_ROLLBACK_COMPLETE
               THEN WrapError("Stack update failed. The rollback succeeded", error)
               ELSE IF heap[1].status = resourceStatus.UPDATE_ROLLBACK_FAILED
               THEN WrapError("Stack update failed. The rollback failed as well", error)
               ELSE error,
               result, heap)
          /\ UNCHANGED requests
     ELSE /\ NextStage("describeStack", Request("describeStack", heap[1].stackId))
          /\ UNCHANGED <<result, userCalls, userArgs, finals>>
  /\ UNCHANGED <<account, prior, changeSet, changeSetProvider>>

\* ------------------------------------------------------------------------
\* The awaitCompletion loop.
\* ------------------------------------------------------------------------

\* The record the running awaitCompletion polls.
data == stackData[cur]

\* The caller's callback of awaitCompletion, by caller; heap is stackData as the
\* loop leaves it.
AwaitCallback(error, heap) ==
  CASE workflow = "await" ->
         /\ pc' = "done"
         /\ stackData' = heap
         /\ UNCHANGED wfVars
    [] workflow = "deploy" /\ opType = type.CREATE_STACK -> DeployAwaitCallback(error, heap)
    [] workflow = "deploy" /\ opType = type.DELETE_STACK -> DeleteAwaitCallback(error, heap)
    [] workflow = "update" -> UpdateAwaitCallback(error, heap)

\* The final function of async.until hands error to the once-wrapped callback.
Resolve(error, heap) ==
  /\ resolutions' = resolutions + 1
  /\ awaitCalls' = once(awaitCalls)
  /\ awaitError' = IF once(awaitCalls) # awaitCalls THEN error ELSE awaitError
  /\ IF once(awaitCalls) # awaitCalls
     THEN AwaitCallback(error, heap)
     ELSE /\ stackData' = heap
          /\ UNCHANGED <<pc, wfVars>>

\* A loop that gives up after two polls.
UntilGivesUp(heap) ==
  IF isComplete(opType, config, heap[cur].status) \/ polls >= 2
  THEN Resolve(awaitOutcome(opType, heap[cur]), heap)
  ELSE /\ pc' = "timer"
       /\ stackData' = heap
       /\ UNCHANGED <<awaitVars, wfVars>>

\* A loop that never runs its final function on a complete status.
UntilKeepsPolling(heap) ==
  /\ pc' = "timer"
  /\ stackData' = heap
  /\ UNCHANGED <<awaitVars, wfVars>>

\* async.until after a step of the loop: test isComplete, then either start the
\* timer of the next poll or run the final function.
Until(heap) ==
  IF isComplete(opType, config, heap[cur].status)
  THEN Resolve(awaitOutcome(opType, heap[cur]), heap)
  ELSE /\ pc' = "timer"
       /\ stackData' = heap
       /\ UNCHANGED <<awaitVars, wfVars>>

\* awaitCompletion(type, stackData, callback) is called.
AwaitCompletion ==
  /\ workflow = "await"
  /\ pc = "call"
  /\ Until(stackData)
  /\ UNCHANGED <<workflow, clientVars, utilityVars, config, opType, cur, polls, stackEvents, onEventCalls, fetchErrors>>

\* A timer that also fires while the fetch of the previous poll is outstanding.
TimerFiresWhileFetching ==
  /\ pc \in {"timer", "fetching"}
  /\ polls < MaxPolls
  /\ polls' = polls + 1
  /\ pc' = "fetching"
  /\ UNCHANGED <<workflow, clientVars, utilityVars, config, opType, stackData, cur, stackEvents,
                 onEventCalls, fetchErrors, awaitVars, wfVars>>

\* The setTimeout callback: updateEventData issues describeStackEvents.
TimerFires ==
  /\ pc = "timer"
  /\ polls < MaxPolls
  /\ polls' = polls + 1
  /\ pc' = "fetching"
  /\ UNCHANGED <<workflow, clientVars, utilityVars, config, opType, stackData, cur, stackEvents, onEventCalls,
                 fetchErrors, awaitVars, wfVars>>

\* describeStackEvents calls back with the events: updateEventData replaces the
\* events, invokes onEventFn for each new event, sets the status, and
\* async.until tests isComplete.
DescribeStackEventsReturns ==
  /\ pc = "fetching"
  /\ LET events == describeStackEvents(stackEvents[data.stackId])
     IN /\ onEventCalls' = [onEventCalls EXCEPT ![cur] = @ \o newEventsOf(data, events)]
        /\ Until([stackData EXCEPT ![cur] = updateEventData(data, events)])
  /\ UNCHANGED <<workflow, clientVars, utilityVars, config, opType, cur, polls, stackEvents, fetchErrors>>

\* A loop that starts the timer again after a failed fetch.
DescribeStackEventsFailsRetries ==
  /\ pc = "fetching"
  /\ fetchErrors' = fetchErrors + 1
  /\ pc' = "timer"
  /\ UNCHANGED <<workflow, clientVars, utilityVars, config, opType, stackData, cur, polls, stackEvents,
                 onEventCalls, awaitVars, wfVars>>

\* describeStackEvents calls back with an error: updateEventData passes it on
\* and async.until runs the final function with it.
DescribeStackEventsFails ==
  /\ pc = "fetching"
  /\ fetchErrors' = fetchErrors + 1
  /\ Resolve(MkError("Call to describeStackEvents failed", NoEvent),
             [stackData EXCEPT ![cur] = updateEventDataError(data)])
  /\ UNCHANGED <<workflow, clientVars, utilityVars, config, opType, cur, polls, stackEvents, onEventCalls>>

\* The final function of async.until is entered a second time, with the error
\* of a late provider callback.
ResolveAgain ==
  /\ workflow # "previewUpdate"
  /\ awaitCalls > 0
  /\ resolutions < MaxResolutions
  /\ Resolve(MkError("Call to describeStackEvents failed", NoEvent), stackData)
  /\ UNCHANGED <<workflow, clientVars, utilityVars, config, opType, cur, polls, stackEvents, onEventCalls, fetchErrors>>

\* The provider records a further event of the stack under operation.
ProviderAppend ==
  /\ pc \in {"timer", "fetching"}
  /\ Len(stackEvents[data.stackId]) < MaxHistory
  /\ \E k \in EventKinds :
       stackEvents' = [stackEvents EXCEPT ![data.stackId] =
         Append(@, [EventId |-> Len(@) + 1,
                    ResourceType |-> k.ResourceType,
                    ResourceStatus |-> k.ResourceStatus])]
  /\ UNCHANGED <<workflow, clientVars, utilityVars, config, opType, stackData, cur, pc, polls, onEventCalls,
                 fetchErrors, awaitVars, wfVars>>

\* ------------------------------------------------------------------------
\* awaitCompletion on its own, for every operation type and failure policy.
\* ------------------------------------------------------------------------

NoArgs == [error |-> NoError, result |-> [errors |-> <<>>], stackData |-> <<>>]

\* No operation objects side by side.
NoOperations ==
  /\ operations = <<>>
  /\ awsClients = <<>>
  /\ providerCalls = <<>>

\* No utility called on its own.
NoUtilities ==
  /\ utilityArgs = <<>>
  /\ utilityOut = <<>>

\* The workflow variables while no workflow runs.
NoWorkflow ==
  /\ account = <<>>
  /\ result = [errors |-> <<>>]
  /\ stages = <<>>
  /\ requests = <<>>
  /\ prior = NoPrior
  /\ changeSet = NoChangeSet
  /\ changeSetProvider = NoChangeSet
  /\ userCalls = 0
  /\ userArgs = NoArgs
  /\ finals = 0

InitAwait ==
  /\ workflow = "await"
  /\ config \in [onDeployFailure : {onDeployFailure.DELETE, onDeployFailure.DO_NOTHING}]
  /\ opType \in {type.CREATE_STACK, type.DELETE_STACK, type.UPDATE_STACK}
  /\ stackData = <<getStackData(<<"n", "a", "m", "e">>, "id")>>
  /\ cur = 1
  /\ pc = "call"
  /\ polls = 0
  /\ stackEvents = [id \in {"id"} |-> <<>>]
  /\ onEventCalls = <<(<<>>)>>
  /\ awaitCalls = 0
  /\ awaitError = NoError
  /\ fetchErrors = 0
  /\ resolutions = 0
  /\ NoWorkflow
  /\ NoOperations
  /\ NoUtilities

NextAwait ==
  \/ AwaitCompletion
  \/ TimerFires
  \/ DescribeStackEventsReturns
  \/ DescribeStackEventsFails
  \/ ProviderAppend

SpecAwait == InitAwait /\ [][NextAwait]_vars

\* ------------------------------------------------------------------------
\* A create whose stack fails and is deleted by the provider: the stack-level
\* statuses arrive one per poll, events of nested resources in between.
\* ------------------------------------------------------------------------

Script == <<"CREATE_IN_PROGRESS", "CREATE_FAILED", "DELETE_IN_PROGRESS", "DELETE_COMPLETE">>

\* The provider records the next stack-level status of the script, once the
\* previous one has been fetched.
ProviderScript ==
  /\ pc \in {"timer", "fetching"}
  /\ Len(StackLevel(stackEvents[data.stackId])) = Len(StackLevel(data.events))
  /\ Len(StackLevel(stackEvents[data.stackId])) < Len(Script)
  /\ stackEvents' = [stackEvents EXCEPT ![data.stackId] =
       Append(@, [EventId |-> Len(@) + 1,
                  ResourceType |-> resourceType.STACK,
                  ResourceStatus |-> Script[Len(StackLevel(@)) + 1]])]
  /\ UNCHANGED <<workflow, clientVars, utilityVars, config, opType, stackData, cur, pc, polls, onEventCalls,
                 fetchErrors, awaitVars, wfVars>>

\* The provider records an event of a nested resource.
ProviderNested ==
  /\ pc \in {"timer", "fetching"}
  /\ Len(Nested(stackEvents[data.stackId])) < MaxNested
  /\ \E k \in NestedEvents :
       stackEvents' = [stackEvents EXCEPT ![data.stackId] =
         Append(@, [EventId |-> Len(@) + 1,
                    ResourceType |-> k.ResourceType,
                    ResourceStatus |-> k.ResourceStatus])]
  /\ UNCHANGED <<workflow, clientVars, utilityVars, config, opType, stackData, cur, pc, polls, onEventCalls,
                 fetchErrors, awaitVars, wfVars>>

InitScenario == InitAwait /\ opType = type.CREATE_STACK

NextScenario ==
  \/ AwaitCompletion
  \/ TimerFires
  \/ DescribeStackEventsReturns
  \/ DescribeStackEventsFails
  \/ ProviderScript
  \/ ProviderNested

SpecScenario == InitScenario /\ [][NextScenario]_vars

\* ------------------------------------------------------------------------
\* The workflows: configurations and accounts they start from.
\* ------------------------------------------------------------------------

loopVars == <<opType, cur, polls, fetchErrors, awaitCalls, awaitError, resolutions>>

cbVars == <<userCalls, userArgs, finals>>

\* Deploy configurations after fillDeployConfigurationDefaults: valid ones of
\* every policy, and ones that violate the schema once or twice.
DeployConfigs ==
  [baseName : {<<"b">>}, deployId : {<<"9">>}, stackName : {<<>>},
   version : {<<"1">>, <<>>}, tags : {<<>>},
   onDeployFailure : {onDeployFailure.DELETE, onDeployFailure.DO_NOTHING},
   priorInstance : {priorInstance.DELETE, priorInstance.DO_NOTHING},
   progressCheckIntervalInSeconds : {0, 10}]

\* Update configurations after fillUpdateConfigurationDefaults.
UpdateConfigs ==
  [baseName : {<<>>}, deployId : {<<>>}, stackName : {<<"s">>, <<>>},
   version : {<<>>}, tags : {<<>>},
   progressCheckIntervalInSeconds : {0, 10}]

\* Preview configurations after fillPreviewUpdateConfigurationDefaults.
PreviewUpdateConfigs ==
  [baseName : {<<>>}, deployId : {<<>>}, stackName : {<<"s">>},
   version : {<<>>}, tags : {<<>>},
   changeSetName : {<<"c">>, <<>>}, deleteChangeSet : BOOLEAN,
   progressCheckIntervalInSeconds : {10}]

\* An event of a stack's history.
Event(n, rtype, status) == [EventId |-> n, ResourceType |-> rtype, ResourceStatus |-> status]

\* A stack of the account before the workflow starts, with its tags and the
\* history it has so far.
ExistingStack(id, name, base, history) ==
  [StackId |-> id, StackName |-> name,
   Tags |-> <<[Key |-> tag.STACK_NAME, Value |-> name]>>
            \o (IF base # <<>> THEN <<[Key |-> tag.STACK_BASE_NAME, Value |-> base]>> ELSE <<>>),
   Existing |-> history]

Created == <<Event(1, resourceType.STACK, "CREATE_COMPLETE")>>

Updated == Created \o <<Event(2, resourceType.STACK, "UPDATE_COMPLETE")>>

\* Earlier deployments of base name b, a deployment of base name b-x, one of
\* base name bx, and an earlier deployment of b that was updated since.
P1 == ExistingStack("p1", <<"b", "-", "1">>, <<"b">>, Created)

P2 == ExistingStack("p2", <<"b", "-", "x", "-", "2">>, <<"b", "-", "x">>, Created)

P3 == ExistingStack("p3", <<"b", "x", "-", "3">>, <<"b", "x">>, Created)

P4 == ExistingStack("p4", <<"b", "-", "4">>, <<"b">>, Updated)

P5 == ExistingStack("p5", <<"b", "-", "5">>, <<"b">>, Created)

\* A stack that carries the base-name tag of b under a name without the dash.
P6 == ExistingStack("p6", <<"b", "x", "-", "6">>, <<"b">>, Created)

\* An earlier deployment of b whose deletion failed once.
P7 == ExistingStack("p7", <<"b", "-", "7">>, <<"b">>,
                    Created \o <<Event(2, resourceType.STACK, "DELETE_FAILED")>>)

\* The stack an update or a preview names, fresh and already updated once.
S1 == ExistingStack("s1", <<"s">>, <<>>, Created)

S2 == ExistingStack("s1", <<"s">>, <<>>, Updated)

StackIds == {"new", "p1", "p2", "p3", "p4", "p5", "p6", "p7", "s1"}

Accounts(w) ==
  CASE w = "deploy" -> {<<>>, <<P2, P1, P6>>, <<P1, P3, P5>>, <<P4, P1>>, <<P7>>}
    [] w = "update" -> {<<>>, <<S1>>, <<S2>>}
    [] w = "previewUpdate" -> {<<S1>>}

Configs(w) ==
  CASE w = "deploy" -> DeployConfigs
    [] w = "update" -> UpdateConfigs
    [] w = "previewUpdate" -> PreviewUpdateConfigs

\* The stack of the account with the given id, and the one with the given name.
StackOf(id) == account[CHOOSE i \in 1..Len(account) : account[i].StackId = id]

Named(name) == SelectSeq(account, LAMBDA st : st.StackName = name)

\* The events the provider recorded for a stack since the workflow started.
OperationEvents(id) == Slice(stackEvents[id], Len(StackOf(id).Existing))

Init ==
  /\ workflow \in {"deploy", "update", "previewUpdate"}
  /\ config \in Configs(workflow)
  /\ account \in Accounts(workflow)
  /\ stackEvents = [id \in StackIds |->
       IF \E i \in 1..Len(account) : account[i].StackId = id
       THEN StackOf(id).Existing ELSE <<>>]
  /\ opType = type.CREATE_STACK
  /\ stackData = <<>>
  /\ cur = 1
  /\ pc = "call"
  /\ polls = 0
  /\ onEventCalls = [i \in 1..(Len(account) + 1) |-> <<>>]
  /\ awaitCalls = 0
  /\ awaitError = NoError
  /\ fetchErrors = 0
  /\ resolutions = 0
  /\ result = [errors |-> <<>>]
  /\ stages = <<>>
  /\ requests = <<>>
  /\ prior = NoPrior
  /\ changeSet = NoChangeSet
  /\ changeSetProvider = NoChangeSet
  /\ userCalls = 0
  /\ userArgs = NoArgs
  /\ finals = 0
  /\ NoOperations
  /\ NoUtilities

\* ------------------------------------------------------------------------
\* Stages shared by the workflows.
\* ------------------------------------------------------------------------

\* A validateConfig stage that goes on to validateTemplate whatever the
\* validator reports.
ValidateConfigContinues(errors, res, heap) ==
  /\ stackData' = heap
  /\ stages' = Started(Completed(Started(stages, "validateConfig")), "validateTemplate")
  /\ requests' = Append(requests, Request("validateTemplate", ""))
  /\ pc' = "validateTemplate"
  /\ result' = res
  /\ UNCHANGED cbVars
  /\ UNCHANGED <<workflow, clientVars, utilityVars, config, loopVars, stackEvents, onEventCalls, account, prior,
                 changeSet, changeSetProvider>>

\* The validateConfig stage, run when the workflow is called with the result
\* object res and the heap it made; errors are the validator's.
ValidateConfig(errors, res, heap) ==
  /\ stackData' = heap
  /\ IF errors # <<>>
     THEN /\ stages' = Failed(Started(stages, "validateConfig"))
          /\ SeriesFinal(ValidationError(errors), res, heap)
          /\ UNCHANGED requests
     ELSE /\ stages' = Started(Completed(Started(stages, "validateConfig")), "validateTemplate")
          /\ requests' = Append(requests, Request("validateTemplate", ""))
          /\ pc' = "validateTemplate"
          /\ result' = res
          /\ UNCHANGED cbVars
  /\ UNCHANGED <<workflow, clientVars, utilityVars, config, loopVars, stackEvents, onEventCalls, account, prior,
                 changeSet, changeSetProvider>>

\* self.awaitCompletion(type, stackData, callback) with record i of the heap:
\* async.until tests isComplete, then starts the timer of the first poll.
StartAwait(t, i, heap) ==
  /\ ~isComplete(t, config, heap[i].status)
  /\ opType' = t
  /\ cur' = i
  /\ polls' = 0
  /\ fetchErrors' = 0
  /\ awaitCalls' = 0
  /\ awaitError' = NoError
  /\ resolutions' = 0
  /\ pc' = "timer"

\* The stage after validateTemplate, by workflow.
AfterValidateTemplate ==
  CASE workflow = "deploy" -> "createStack"
    [] workflow = "update" -> "updateStack"
    [] workflow = "previewUpdate" -> "createChangeSet"

\* cloudFormation.validateTemplate calls back.
ValidateTemplateReturns ==
  /\ pc = "validateTemplate"
  /\ \/ /\ StageFails(MkError("Call to validateTemplate failed", NoEvent), result, stackData)
        /\ UNCHANGED requests
     \/ /\ NextStage(AfterValidateTemplate, Request(AfterValidateTemplate, ""))
        /\ UNCHANGED <<result, cbVars>>
  /\ UNCHANGED <<workflow, clientVars, utilityVars, config, stackData, loopVars, stackEvents, onEventCalls, account,
                 prior, changeSet, changeSetProvider>>

\* client.describeStacks for a stack id calls back to CloudFormation.describeStack:
\* the error and the description describeStack hands on.
DescribeStackOutcomes(stackId) ==
  {[error |-> MkError("Call to describeStacks failed", NoEvent), description |-> NoDescription]}
  \cup (IF Len(DescribeStacks(stackId)) = 0
        THEN {[error |-> MkError("No such stack", NoEvent), description |-> NoDescription]}
        ELSE {[error |-> NoError, description |-> DescribeStacks(stackId)[1]]})

\* A describeStack stage after which every workflow runs the post-creation
\* hook.
DescribeStackReturnsThenHook ==
  /\ pc = "describeStack"
  /\ \E o \in DescribeStackOutcomes(stackData[1].stackId) :
       LET res == [result EXCEPT !.describeStack = o.description]
       IN IF IsError(o.error)
          THEN /\ StageFails(o.error, res, stackData)
               /\ UNCHANGED requests
          ELSE /\ stages' = Started(Completed(stages), "postCreationFn")
               /\ pc' = "postCreationFn"
               /\ result' = res
               /\ UNCHANGED <<requests, cbVars>>
  /\ UNCHANGED <<workflow, clientVars, utilityVars, config, stackData, loopVars, stackEvents, onEventCalls,
                 account, prior, changeSet, changeSetProvider>>

\* The describeStack stage of deploy and update calls back.
DescribeStackReturns ==
  /\ pc = "describeStack"
  /\ \E o \in DescribeStackOutcomes(stackData[1].stackId) :
       LET res == [result EXCEPT !.describeStack = o.description]
       IN IF IsError(o.error)
          THEN /\ StageFails(o.error, res, stackData)
               /\ UNCHANGED requests
          ELSE IF workflow = "deploy"
          THEN /\ stages' = Started(Completed(stages), "postCreationFn")
               /\ pc' = "postCreationFn"
               /\ result' = res
               /\ UNCHANGED <<requests, cbVars>>
          ELSE /\ SeriesEnds(res, stackData)
               /\ UNCHANGED requests
  /\ UNCHANGED <<workflow, clientVars, utilityVars, config, stackData, loopVars, stackEvents, onEventCalls, account,
                 prior, changeSet, changeSetProvider>>

\* ------------------------------------------------------------------------
\* Deploy.
\* ------------------------------------------------------------------------

\* The value JavaScript reads from a property of the configuration: undefined
\* when the configuration has no such property.
Property(cfg, name) == IF name \in DOMAIN cfg THEN cfg[name] ELSE Undefined

\* A createStack that sends the policy configured as onDeployFailure.
createStackParamsOnDeployFailure(cfg) ==
  [StackName |-> determineStackName(cfg),
   OnFailure |-> Property(cfg, "onDeployFailure"),
   Tags |-> getTags(cfg)]

\* CloudFormation.prototype.createStack: the params of the request, as far as
\* the model follows them.
createStackParams(cfg) ==
  [StackName |-> determineStackName(cfg),
   OnFailure |-> Property(cfg, "onFailure"),
   Tags |-> getTags(cfg)]

\* Deploy.prototype.deploy is called: the result object is made and the
\* validateConfig stage runs.
deploy ==
  /\ workflow = "deploy"
  /\ pc = "call"
  /\ ValidateConfig(validateDeployConfig(config),
                    [errors |-> <<>>, describeStack |-> NoDescription, deleteStack |-> <<>>],
                    <<getStackData(determineStackName(config), Undefined)>>)

\* cloudFormation.createStack calls back: the provider made the stack and the
\* stage keeps its id, or the call failed.
CreateStackReturns ==
  /\ pc = "createStack"
  /\ \/ /\ StageFails(MkError("Call to createStack failed", NoEvent), result, stackData)
        /\ UNCHANGED <<stackData, account, loopVars>>
     \/ /\ account' = Append(account,
             [StackId |-> "new", StackName |-> createStackParams(config).StackName,
              Tags |-> createStackParams(config).Tags,
              OnFailure |-> createStackParams(config).OnFailure, Existing |-> <<>>])
        /\ stackData' = [stackData EXCEPT ![1].stackId = "new"]
        /\ stages' = Started(Completed(stages), "awaitCompletion")
        /\ StartAwait(type.CREATE_STACK, 1, stackData')
        /\ UNCHANGED <<result, cbVars>>
  /\ UNCHANGED <<workflow, clientVars, utilityVars, config, stackEvents, onEventCalls, requests, prior, changeSet,
                 changeSetProvider>>

\* A deploy that goes on to delete prior stacks whatever postCreationFn reports.
PostCreationFnReturnsIgnoresError ==
  /\ pc = "postCreationFn"
  /\ \E hook \in {Completed(stages), Failed(stages)} :
       stages' = Started(hook, "deletePriorStacks")
  /\ requests' = Append(requests, Request("listStacks", ""))
  /\ pc' = "listStacks"
  /\ prior' = NoPrior
  /\ UNCHANGED <<result, cbVars>>
  /\ UNCHANGED <<workflow, clientVars, utilityVars, config, stackData, loopVars, stackEvents, onEventCalls, account,
                 changeSet, changeSetProvider>>

\* config.postCreationFn calls back; the deletePriorStacks stage starts and
\* either skips or issues the first listStacks.
PostCreationFnReturns ==
  /\ pc = "postCreationFn"
  /\ \/ /\ StageFails(MkError("postCreationFn failed", NoEvent), result, stackData)
        /\ UNCHANGED <<requests, prior>>
     \/ /\ config.priorInstance # priorInstance.DELETE
        /\ stages' = Completed(Started(Completed(stages), "deletePriorStacks"))
        /\ SeriesFinal(NoError, result, stackData)
        /\ UNCHANGED <<requests, prior>>
     \/ /\ config.priorInstance = priorInstance.DELETE
        /\ NextStage("deletePriorStacks", Request("listStacks", ""))
        /\ prior' = NoPrior
        /\ UNCHANGED <<result, cbVars>>
  /\ UNCHANGED <<workflow, clientVars, utilityVars, config, stackData, loopVars, stackEvents, onEventCalls, account,
                 changeSet, changeSetProvider>>

\* A deletePriorStacks that issues the deleteStack of every prior stack at once.
PriorStacksDescribedDeletesAtOnce(descriptions) ==
  IF Len(descriptions) = 0
  THEN /\ SeriesEnds(result, stackData)
       /\ prior' = [prior EXCEPT !.stackDescriptions = descriptions,
                                 !.callback = PriorCallback(NoError, TRUE, descriptions)]
       /\ UNCHANGED <<stackData, requests>>
  ELSE /\ stackData' = stackData \o
            [j \in 1..Len(descriptions) |->
               getStackData(descriptions[j].StackName, descriptions[j].StackId)]
       /\ result' = [result EXCEPT !.deleteStack =
            [j \in 1..Len(descriptions) |-> Len(stackData) + j]]
       /\ requests' = requests \o
            [j \in 1..Len(descriptions) |-> Request("deleteStack", descriptions[j].StackId)]
       /\ pc' = "deleteStack"
       /\ prior' = [prior EXCEPT !.stackDescriptions = descriptions,
                                 !.del = Len(descriptions),
                                 !.callback = PriorCallback(NoError, TRUE, descriptions)]
       /\ UNCHANGED <<stages, cbVars>>

\* describePriorStacks has its descriptions: deletePriorStacks ends when there
\* are none, and starts the first deletion otherwise.
PriorStacksDescribed(descriptions) ==
  IF Len(descriptions) = 0
  THEN /\ SeriesEnds(result, stackData)
       /\ prior' = [prior EXCEPT !.stackDescriptions = descriptions,
                                 !.callback = PriorCallback(NoError, TRUE, descriptions)]
       /\ UNCHANGED <<stackData, requests>>
  ELSE /\ StartDelete(1, descriptions, stackData)
       /\ prior' = [prior EXCEPT !.stackDescriptions = descriptions, !.del = 1,
                                 !.callback = PriorCallback(NoError, TRUE, descriptions)]
       /\ UNCHANGED <<stages, cbVars>>

\* client.listStacks calls back to describePriorStacks with one page.
ListStacksReturns ==
  /\ pc = "listStacks"
  /\ \/ /\ StageFails(MkError("Call to describeStacks failed", NoEvent), result, stackData)
        /\ prior' = [prior EXCEPT !.callback =
             PriorCallback(MkError("Call to describeStacks failed", NoEvent), FALSE, <<>>)]
        /\ UNCHANGED <<stackData, requests>>
     \/ LET k == prior.page + 1
            stackSummaries == prior.stackSummaries
                              \o filterSummaries(ListPage(k), config.baseName, stackData[1].stackId)
        IN IF HasNextToken(k)
           THEN /\ prior' = [prior EXCEPT !.page = k, !.stackSummaries = stackSummaries]
                /\ requests' = Append(requests, Request("listStacks", ""))
                /\ UNCHANGED <<pc, stackData, result, stages, cbVars>>
           ELSE IF Len(stackSummaries) = 0
           THEN /\ PriorStacksDescribed(<<>>)
           ELSE /\ prior' = [prior EXCEPT !.page = k, !.stackSummaries = stackSummaries]
                /\ requests' = Append(requests, Request("describeStack", stackSummaries[1].StackId))
                /\ pc' = "describePriorStack"
                /\ UNCHANGED <<stackData, result, stages, cbVars>>
  /\ UNCHANGED <<workflow, clientVars, utilityVars, config, loopVars, stackEvents, onEventCalls, account, changeSet,
                 changeSetProvider>>

\* describeStack calls back to the eachSeries of describePriorStacks.
DescribePriorStackReturns ==
  /\ pc = "describePriorStack"
  /\ LET j == prior.idx + 1
     IN \E o \in DescribeStackOutcomes(prior.stackSummaries[j].StackId) :
          IF IsError(o.error)
          THEN /\ StageFails(o.error, result, stackData)
               /\ prior' = [prior EXCEPT !.callback =
                    PriorCallback(o.error, TRUE, prior.stackDescriptions)]
               /\ UNCHANGED <<stackData, requests>>
          ELSE LET stackDescriptions ==
                     IF isPriorStack(o.description, config.baseName)
                     THEN Append(prior.stackDescriptions, o.description)
                     ELSE prior.stackDescriptions
               IN IF j < Len(prior.stackSummaries)
                  THEN /\ prior' = [prior EXCEPT !.idx = j,
                                                 !.stackDescriptions = stackDescriptions]
                       /\ requests' = Append(requests,
                            Request("describeStack", prior.stackSummaries[j + 1].StackId))
                       /\ UNCHANGED <<pc, stackData, result, stages, cbVars>>
                  ELSE PriorStacksDescribed(stackDescriptions)
  /\ UNCHANGED <<workflow, clientVars, utilityVars, config, loopVars, stackEvents, onEventCalls, account, changeSet,
                 changeSetProvider>>

\* cloudFormation.deleteStack calls back to the series of Deploy.deleteStack.
DeleteStackReturns ==
  /\ pc = "deleteStack"
  /\ \/ /\ StageFails(MkError("Call to deleteStack failed", NoEvent), result, stackData)
        /\ UNCHANGED loopVars
     \/ /\ StartAwait(type.DELETE_STACK, Len(stackData), stackData)
        /\ UNCHANGED <<result, stages, cbVars>>
  /\ UNCHANGED <<workflow, clientVars, utilityVars, config, stackData, stackEvents, onEventCalls, account, requests,
                 prior, changeSet, changeSetProvider>>

\* ------------------------------------------------------------------------
\* Update.
\* ------------------------------------------------------------------------

\* Update.prototype.update is called.
update ==
  /\ workflow = "update"
  /\ pc = "call"
  /\ ValidateConfig(validateUpdateConfig(config),
                    [errors |-> <<>>, describeStack |-> NoDescription],
                    <<getStackData(determineStackName(config), Undefined)>>)

\* cloudFormation.updateStack calls back: the provider started the update of
\* the stack the configuration names and returns its id, or the call failed.
UpdateStackReturns ==
  /\ pc = "updateStack"
  /\ \/ /\ StageFails(MkError("Call to updateStack failed", NoEvent), result, stackData)
        /\ UNCHANGED <<stackData, loopVars>>
     \/ /\ Len(Named(determineStackName(config))) > 0
        /\ stackData' = [stackData EXCEPT
             ![1].stackId = Named(determineStackName(config))[1].StackId]
        /\ stages' = Started(Completed(stages), "awaitCompletion")
        /\ StartAwait(type.UPDATE_STACK, 1, stackData')
        /\ UNCHANGED <<result, cbVars>>
  /\ UNCHANGED <<workflow, clientVars, utilityVars, config, stackEvents, onEventCalls, account, requests, prior,
                 changeSet, changeSetProvider>>

\* ------------------------------------------------------------------------
\* PreviewUpdate.
\* ------------------------------------------------------------------------

\* PreviewUpdate.prototype.previewUpdate is called.
previewUpdate ==
  /\ workflow = "previewUpdate"
  /\ pc = "call"
  /\ ValidateConfig(validatePreviewUpdateConfig(config),
                    [errors |-> <<>>, changeSet |-> NoChangeSet],
                    <<>>)

\* cloudFormation.describeChangeSet: the description with the changes of every
\* page concatenated.
describeChangeSet(cs) == [cs EXCEPT !.Changes = ConcatPages(ProviderPages(cs.Changes))]

\* A truth test that takes any fetched description for complete.
changeSetIsCompleteOnAnyDescription(cs) == cs # NoChangeSet

\* PreviewUpdate awaitCompletion: isComplete().
changeSetIsComplete(cs) ==
  IF cs = NoChangeSet THEN FALSE
  ELSE cs.Status \in {changeSetStatus.CREATE_COMPLETE, changeSetStatus.FAILED}

\* An awaitCompletion stage of previewUpdate after which the change set is
\* deleted whatever the outcome of the loop.
ChangeSetCallbackAlwaysDeletes(error, cs) ==
  /\ stages' = Started(IF IsError(error) THEN Failed(stages) ELSE Completed(stages),
                       "deleteChangeSet")
  /\ requests' = Append(requests, Request("deleteChangeSet", ""))
  /\ pc' = "deleteChangeSet"
  /\ result' = [result EXCEPT !.changeSet = cs]
  /\ UNCHANGED cbVars

\* previewUpdate: the callback its awaitCompletion stage gives to
\* awaitCompletion; cs is NoChangeSet when the loop hands over none.
ChangeSetCallback(error, cs) ==
  LET res == [result EXCEPT !.changeSet = cs]
  IN IF IsError(error)
     THEN /\ StageFails(error, res, stackData)
          /\ UNCHANGED requests
     ELSE IF ~config.deleteChangeSet
     THEN /\ stages' = Completed(Started(Completed(stages), "deleteChangeSet"))
          /\ SeriesFinal(NoError, res, stackData)
          /\ UNCHANGED requests
     ELSE /\ NextStage("deleteChangeSet", Request("deleteChangeSet", ""))
          /\ result' = res
          /\ UNCHANGED cbVars

\* The final function of the change-set loop hands its outcome to the
\* once-wrapped callback.
ChangeSetResolve(error, cs) ==
  /\ resolutions' = resolutions + 1
  /\ awaitCalls' = once(awaitCalls)
  /\ awaitError' = IF once(awaitCalls) # awaitCalls THEN error ELSE awaitError
  /\ IF once(awaitCalls) # awaitCalls
     THEN ChangeSetCallback(error, IF IsError(error) THEN NoChangeSet ELSE cs)
     ELSE UNCHANGED <<pc, result, stages, requests, cbVars>>

\* cloudFormation.createChangeSet calls back; the awaitCompletion stage starts
\* the change-set loop, whose first test finds no change set yet.
CreateChangeSetReturns ==
  /\ pc = "createChangeSet"
  /\ \/ /\ StageFails(MkError("Call to createChangeSet failed", NoEvent), result, stackData)
        /\ UNCHANGED <<changeSet, changeSetProvider, polls, fetchErrors, awaitCalls,
                       awaitError, resolutions>>
     \/ /\ changeSetProvider' = [Status |-> "CREATE_PENDING", Changes |-> <<>>]
        /\ stages' = Started(Completed(stages), "awaitCompletion")
        /\ changeSet' = NoChangeSet
        /\ polls' = 0
        /\ fetchErrors' = 0
        /\ awaitCalls' = 0
        /\ awaitError' = NoError
        /\ resolutions' = 0
        /\ pc' = "csTimer"
        /\ UNCHANGED <<result, cbVars>>
  /\ UNCHANGED <<workflow, clientVars, utilityVars, config, opType, cur, stackData, stackEvents, onEventCalls,
                 account, requests, prior>>

\* The setTimeout callback of the change-set loop issues describeChangeSet.
ChangeSetTimerFires ==
  /\ pc = "csTimer"
  /\ polls < MaxPolls
  /\ polls' = polls + 1
  /\ pc' = "csFetching"
  /\ UNCHANGED <<workflow, clientVars, utilityVars, config, opType, cur, stackData, stackEvents, onEventCalls,
                 fetchErrors, awaitVars, wfVars>>

\* describeChangeSet calls back: changeSet = data || changeSet, and async.until
\* tests isComplete or runs the final function with the error.
DescribeChangeSetReturns ==
  /\ pc = "csFetching"
  /\ \/ /\ fetchErrors' = fetchErrors + 1
        /\ changeSet' = changeSet
        /\ ChangeSetResolve(MkError("Call to describeChangeSet failed", NoEvent), changeSet)
     \/ /\ changeSet' = describeChangeSet(changeSetProvider)
        /\ IF changeSetIsComplete(changeSet')
           THEN ChangeSetResolve(NoError, changeSet')
           ELSE /\ pc' = "csTimer"
                /\ UNCHANGED <<awaitVars, result, stages, requests, cbVars>>
        /\ UNCHANGED fetchErrors
  /\ UNCHANGED <<workflow, clientVars, utilityVars, config, opType, cur, polls, stackData, stackEvents, onEventCalls,
                 account, prior, changeSetProvider>>

\* cloudFormation.deleteChangeSet calls back.
DeleteChangeSetReturns ==
  /\ pc = "deleteChangeSet"
  /\ \/ /\ StageFails(MkError("Call to deleteChangeSet failed", NoEvent), result, stackData)
        /\ UNCHANGED changeSetProvider
     \/ /\ SeriesEnds(result, stackData)
        /\ changeSetProvider' = NoChangeSet
  /\ UNCHANGED <<workflow, clientVars, utilityVars, config, stackData, loopVars, stackEvents, onEventCalls, account,
                 requests, prior, changeSet>>

\* ------------------------------------------------------------------------
\* The provider while a workflow waits, and callbacks that arrive twice.
\* ------------------------------------------------------------------------

\* What the provider may record next for an operation of type t, given the
\* events it recorded for it so far.
ProviderNext(t, recorded) ==
  LET status == IF Len(StackLevel(recorded)) = 0 THEN ""
                ELSE Last(StackLevel(recorded)).ResourceStatus
      S(st) == [ResourceType |-> resourceType.STACK, ResourceStatus |-> st]
      N(st) == [ResourceType |-> NestedType, ResourceStatus |-> st]
  IN CASE t = type.CREATE_STACK ->
            IF status = "" THEN {S("CREATE_COMPLETE"), S("CREATE_FAILED"), N("CREATE_FAILED")}
            ELSE IF status = "CREATE_FAILED" THEN {S("DELETE_COMPLETE"), S("DELETE_FAILED")}
            ELSE {}
       [] t = type.DELETE_STACK ->
            IF status = ""
            THEN {S("DELETE_IN_PROGRESS"), S("DELETE_COMPLETE"), S("DELETE_FAILED")}
            ELSE IF status = "DELETE_IN_PROGRESS"
            THEN {S("DELETE_COMPLETE"), S("DELETE_FAILED")}
            ELSE {}
       [] t = type.UPDATE_STACK ->
            IF status = ""
            THEN {S("UPDATE_COMPLETE"), S("UPDATE_ROLLBACK_COMPLETE"),
                  S("UPDATE_ROLLBACK_FAILED"), N("UPDATE_FAILED")}
            ELSE {}

\* The provider records a further event of the operation a workflow awaits.
ProviderProgress ==
  /\ pc \in {"timer", "fetching"}
  /\ Len(OperationEvents(data.stackId)) < MaxOperationEvents
  /\ \E k \in ProviderNext(opType, OperationEvents(data.stackId)) :
       stackEvents' = [stackEvents EXCEPT ![data.stackId] =
         Append(@, Event(Len(@) + 1, k.ResourceType, k.ResourceStatus))]
  /\ UNCHANGED <<workflow, clientVars, utilityVars, config, opType, stackData, cur, pc, polls, onEventCalls,
                 fetchErrors, awaitVars, wfVars>>

\* The provider advances the creation of the change set.
ProviderChangeSet ==
  /\ pc \in {"csTimer", "csFetching"}
  /\ \/ /\ changeSetProvider.Status = "CREATE_PENDING"
        /\ changeSetProvider' = [changeSetProvider EXCEPT !.Status = "CREATE_IN_PROGRESS"]
     \/ /\ changeSetProvider.Status = "CREATE_IN_PROGRESS"
        /\ changeSetProvider' = [Status |-> changeSetStatus.CREATE_COMPLETE,
                                 Changes |-> <<"c1", "c2", "c3">>]
     \/ /\ changeSetProvider.Status = "CREATE_IN_PROGRESS"
        /\ changeSetProvider' = [Status |-> changeSetStatus.FAILED, Changes |-> <<>>]
  /\ UNCHANGED <<workflow, clientVars, utilityVars, config, opType, stackData, cur, pc, polls, stackEvents,
                 onEventCalls, fetchErrors, awaitVars, account, result, stages, requests,
                 prior, changeSet, cbVars>>

\* The final function of the change-set loop is entered a second time, with
\* the error of a late provider callback.
ChangeSetResolveAgain ==
  /\ workflow = "previewUpdate"
  /\ awaitCalls > 0
  /\ resolutions < MaxResolutions
  /\ ChangeSetResolve(MkError("Call to describeChangeSet failed", NoEvent), changeSet)
  /\ UNCHANGED <<workflow, clientVars, utilityVars, config, opType, stackData, cur, polls, stackEvents, onEventCalls,
                 fetchErrors, account, prior, changeSet, changeSetProvider>>

\* The final function of a workflow's series is entered a second time, with
\* the error of a stage that calls back twice.
SeriesFinalAgain ==
  /\ finals > 0
  /\ finals < MaxResolutions
  /\ SeriesFinal(MkError("Callback was already called.", NoEvent), result, stackData)
  /\ UNCHANGED <<workflow, clientVars, utilityVars, config, stackData, loopVars, stackEvents, onEventCalls, account,
                 stages, requests, prior, changeSet, changeSetProvider>>

Next ==
  \/ deploy
  \/ update
  \/ previewUpdate
  \/ ValidateTemplateReturns
  \/ CreateStackReturns
  \/ UpdateStackReturns
  \/ CreateChangeSetReturns
  \/ TimerFires
  \/ DescribeStackEventsReturns
  \/ DescribeStackEventsFails
  \/ ResolveAgain
  \/ DescribeStackReturns
  \/ PostCreationFnReturns
  \/ ListStacksReturns
  \/ DescribePriorStackReturns
  \/ DeleteStackReturns
  \/ ChangeSetTimerFires
  \/ DescribeChangeSetReturns
  \/ ChangeSetResolveAgain
  \/ DeleteChangeSetReturns
  \/ SeriesFinalAgain
  \/ ProviderProgress
  \/ ProviderChangeSet

Spec == Init /\ [][Next]_vars

\* ------------------------------------------------------------------------
\* Properties of the lifecycle coordinator.
\* ------------------------------------------------------------------------

\* The terminal-state table of the coordinator: success state per kind.
SuccessState(t) ==
  CASE t = "create" -> "CREATE_COMPLETE"
    [] t = "delete" -> "DELETE_COMPLETE"
    [] t = "update" -> "UPDATE_COMPLETE"

\* The terminal-state table of the coordinator: terminal states per kind and
\* failure policy.
TerminalStates(t, policy) ==
  CASE t = "create" /\ policy = "DELETE" -> {"CREATE_COMPLETE", "DELETE_COMPLETE", "DELETE_FAILED"}
    [] t = "create" /\ policy # "DELETE" -> {"CREATE_COMPLETE", "CREATE_FAILED"}
    [] t = "delete" -> {"DELETE_COMPLETE", "DELETE_FAILED"}
    [] t = "update" -> {"UPDATE_COMPLETE", "UPDATE_ROLLBACK_COMPLETE", "UPDATE_ROLLBACK_FAILED"}

\* C1: awaitCompletion calls back without an error if and only if the status
\* of the record is the success state of the operation kind; every other status
\* it resolves on, and every unrecognized status, yields an error.
C1_SuccessIffSuccessState ==
  awaitCalls > 0 =>
    /\ (awaitError = NoError) <=> (data.status = SuccessState(opType))
    /\ (data.status \notin KnownStatuses => IsError(awaitError))

C1_Witness ==
  /\ awaitCalls = 1
  /\ opType = type.CREATE_STACK
  /\ config.onDeployFailure = onDeployFailure.DELETE
  /\ data.status = "DELETE_COMPLETE"
  /\ IsError(awaitError)

\* C2: while no event fetch has failed, the callback of awaitCompletion is not
\* invoked as long as the status is outside the terminal set of the kind and
\* policy, however many polls have happened.
C2_NoCallbackBeforeTerminal ==
  (awaitCalls > 0 /\ fetchErrors = 0) =>
    data.status \in TerminalStates(opType, config.onDeployFailure)

C2_Witness ==
  /\ polls = MaxPolls
  /\ pc = "timer"
  /\ awaitCalls = 0
  /\ data.status = "CREATE_FAILED"
  /\ opType = type.CREATE_STACK

\* Polls of the running loop whose fetch has returned.
CompletedPolls == IF pc = "fetching" THEN polls - 1 ELSE polls

\* Every completed poll brought exactly one new stack-level status.
OnePerPoll == CompletedPolls = Len(StackLevel(data.events))

\* C3: a create with the delete-on-failure policy whose polls yield
\* CREATE_IN_PROGRESS, CREATE_FAILED, DELETE_IN_PROGRESS, DELETE_COMPLETE, one
\* per poll, resolves with an error after exactly 4 polls and not earlier;
\* CREATE_FAILED is not terminal under this policy.
C3_FourPolls ==
  (config.onDeployFailure = onDeployFailure.DELETE /\ fetchErrors = 0 /\ OnePerPoll) =>
    /\ (awaitCalls > 0) <=> (CompletedPolls = 4)
    /\ awaitCalls > 0 => (IsError(awaitError) /\ data.status = "DELETE_COMPLETE")
    /\ data.status = "CREATE_FAILED" => awaitCalls = 0

C3_Witness ==
  /\ config.onDeployFailure = onDeployFailure.DELETE
  /\ fetchErrors = 0
  /\ OnePerPoll
  /\ polls = 4
  /\ awaitCalls = 1
  /\ IsError(awaitError)
  /\ [i \in 1..4 |-> StackLevel(data.events)[i].ResourceStatus] = Script

\* A step in which a fetch of the running loop returns the events.
PollSucceeds == pc = "fetching" /\ pc' # "fetching" /\ fetchErrors' = fetchErrors

\* A step in which a fetch of the running loop fails.
PollFails == fetchErrors' = fetchErrors + 1

\* C4: every successful poll leaves the stored events equal to the provider's
\* full history, oldest first, and onEventFn has then been invoked exactly once
\* for each event of it, in that order; no other step stores or delivers events.
C4_EventsOnceInOrder ==
  [][IF PollSucceeds
     THEN /\ stackData'[cur].events = stackEvents[data.stackId]
          /\ onEventCalls'[cur] = stackEvents[data.stackId]
     ELSE /\ stackData'[cur].events = data.events
          /\ onEventCalls'[cur] = onEventCalls[cur]]_vars

C4_Witness ==
  /\ polls >= 2
  /\ Len(data.events) = 3
  /\ onEventCalls[cur] = data.events
  /\ Len(stackEvents[data.stackId]) = 3

\* C5: a successful poll sets the status to the resource status of the last
\* stack-level event among the events newly seen in it, and keeps the status
\* when those hold no stack-level event.
C5_StatusFromLastNewStackEvent ==
  [][PollSucceeds =>
      LET history == stackEvents[data.stackId]
          fresh == {i \in (Len(data.events) + 1)..Len(history) :
                      history[i].ResourceType = "AWS::CloudFormation::Stack"}
      IN stackData'[cur].status =
           IF fresh = {} THEN data.status
           ELSE history[CHOOSE i \in fresh : \A j \in fresh : j <= i].ResourceStatus]_vars

C5_Witness ==
  /\ polls >= 2
  /\ Len(data.events) = 3
  /\ data.events[1].ResourceType = resourceType.STACK
  /\ data.events[2].ResourceType = NestedType
  /\ data.events[3].ResourceType = NestedType
  /\ data.status = data.events[1].ResourceStatus

\* C6: a failed fetch leaves events and status of the record as they were and
\* invokes onEventFn for no event.
C6_FailedFetchChangesNothing ==
  [][PollFails => (stackData' = stackData /\ onEventCalls' = onEventCalls)]_vars

C6_Witness ==
  /\ fetchErrors = 1
  /\ Len(data.events) > 0
  /\ data.status # Undefined

\* C7: a failed fetch ends the loop at once: awaitCompletion calls back with
\* that error, no further poll is issued and the fetch is not retried.
C7_FetchErrorEndsLoop ==
  /\ [](fetchErrors > 0 =>
         /\ pc = "done"
         /\ awaitCalls = 1
         /\ awaitError = MkError("Call to describeStackEvents failed", NoEvent))
  /\ [][fetchErrors > 0 => (polls' = polls /\ fetchErrors' = fetchErrors)]_vars

C7_Witness ==
  /\ fetchErrors = 1
  /\ polls >= 2
  /\ polls < MaxPolls
  /\ pc = "done"

\* ------------------------------------------------------------------------
\* Properties of the workflows.
\* ------------------------------------------------------------------------

\* C8: the callback given to awaitCompletion, to the change-set awaitCompletion
\* and to deploy, update and previewUpdate runs at most once per call, however
\* many polls and errors there were and also when the final function of the
\* loop or of the series is entered twice.
C8_CallbacksAtMostOnce == awaitCalls <= 1 /\ userCalls <= 1

\* A final function of a loop and of a series were each entered twice, and the
\* callbacks ran once.
C8_Witness ==
  /\ resolutions >= 2
  /\ finals >= 2
  /\ polls >= 2
  /\ awaitCalls = 1
  /\ userCalls = 1

\* The stages of deploy, in order.
DeployStages ==
  <<"validateConfig", "validateTemplate", "createStack", "awaitCompletion", "describeStack",
    "postCreationFn", "deletePriorStacks">>

\* C9: deploy starts its stages in the fixed order validateConfig,
\* validateTemplate, createStack, awaitCompletion (of the create), describeStack,
\* postCreationFn, deletePriorStacks; every stage before the last started one
\* has completed without error, so no stage starts after a failed one.
C9_DeployStagesInOrder ==
  workflow = "deploy" =>
    /\ Len(stages) <= Len(DeployStages)
    /\ \A i \in 1..Len(stages) : stages[i].stage = DeployStages[i]
    /\ \A i \in 1..(Len(stages) - 1) : stages[i].state = "ok"
    /\ (Len(stages) = 4 /\ stages[4].state = "running") => opType = type.CREATE_STACK /\ cur = 1

\* deploy failed in its sixth stage after five stages completed, and is done.
C9_Witness ==
  /\ workflow = "deploy"
  /\ Len(stages) = 6
  /\ stages[6].state = "failed"
  /\ pc = "done"
  /\ userCalls = 1

\* The messages of the errors with which the awaitCompletion of a stack
\* operation or of a change set calls back.
AwaitMessages ==
  {"Stack operation failed on the following event",
   "Stack operation failed, but could not identify failure event.",
   "Call to describeStackEvents failed",
   "Call to describeChangeSet failed"}

\* error is an error of the given stage of the running workflow.
IsErrorOfStage(stage, error) ==
  IF stage = "validateConfig"
  THEN error = ValidationError(
         CASE workflow = "deploy" -> validateDeployConfig(config)
           [] workflow = "update" -> validateUpdateConfig(config)
           [] workflow = "previewUpdate" -> validatePreviewUpdateConfig(config))
  ELSE /\ Len(error.msgs) > 0
       /\ Last(error.msgs) \in
            CASE stage = "validateTemplate" -> {"Call to validateTemplate failed"}
              [] stage = "createStack" -> {"Call to createStack failed"}
              [] stage = "updateStack" -> {"Call to updateStack failed"}
              [] stage = "createChangeSet" -> {"Call to createChangeSet failed"}
              [] stage = "awaitCompletion" -> AwaitMessages
              [] stage = "describeStack" -> {"Call to describeStacks failed", "No such stack"}
              [] stage = "postCreationFn" -> {"postCreationFn failed"}
              [] stage = "deletePriorStacks" ->
                   {"Call to describeStacks failed", "No such stack",
                    "Call to deleteStack failed"} \cup AwaitMessages
              [] stage = "deleteChangeSet" -> {"Call to deleteChangeSet failed"}

\* What the callback of the workflow received is right for the stages run.
CallbackArguments ==
  userCalls = 1 =>
    /\ Len(stages) > 0
    /\ Last(stages).state # "running"
    /\ IF Last(stages).state = "failed"
       THEN /\ IsError(userArgs.error)
            /\ IsErrorOfStage(Last(stages).stage, userArgs.error)
            /\ userArgs.result.errors = <<userArgs.error>>
       ELSE /\ userArgs.error = NoError
            /\ userArgs.result.errors = <<>>
    /\ (Len(stages) > 3 /\ workflow # "previewUpdate") => userArgs.stackData[1].stackId # Undefined
    /\ (Len(stages) > 5 /\ workflow = "deploy") => userArgs.result.describeStack # NoDescription

\* C10: a workflow that has finished has called back; the callback received the
\* failed stage's error and a result whose errors hold exactly that error, or no
\* error and a result without errors when no stage failed; the result is the
\* result object as the stages left it, with the progress records made so far.
C10_CallbackWithResult ==
  /\ [](pc = "done" => userCalls = 1)
  /\ [](CallbackArguments)
  /\ [][userCalls = 0 /\ userCalls' = 1 =>
          /\ pc' = "done"
          /\ userArgs'.result = result'
          /\ userArgs'.stackData = stackData']_vars

\* deploy failed while it deleted the second of two prior stacks: the callback
\* received the error and the result with both deletion records.
C10_Witness ==
  /\ workflow = "deploy"
  /\ userCalls = 1
  /\ finals = 1
  /\ IsError(userArgs.error)
  /\ userArgs.result.errors = <<userArgs.error>>
  /\ Len(userArgs.result.deleteStack) = 2
  /\ Last(stages) = [stage |-> "deletePriorStacks", state |-> "failed"]

\* The violations the validator reports for the configuration of the workflow.
ConfigViolations ==
  CASE workflow = "deploy" -> validateDeployConfig(config)
    [] workflow = "update" -> validateUpdateConfig(config)
    [] workflow = "previewUpdate" -> validatePreviewUpdateConfig(config)

\* C11: when the validator reports a violation, the workflow issues no request
\* to the provider and polls nothing, makes no stack, and ends in its
\* validateConfig stage with the validation error.
C11_InvalidConfigNoProviderCall ==
  ConfigViolations # <<>> =>
    /\ requests = <<>>
    /\ polls = 0
    /\ pc \in {"call", "done"}
    /\ stackEvents["new"] = <<>>
    /\ \A i \in 1..Len(account) : account[i].StackId # "new"
    /\ pc = "done" =>
         /\ stages = <<[stage |-> "validateConfig", state |-> "failed"]>>
         /\ userArgs.error = ValidationError(ConfigViolations)

\* A deploy whose configuration violates the schema twice has called back.
C11_Witness ==
  /\ workflow = "deploy"
  /\ Len(ConfigViolations) = 2
  /\ pc = "done"
  /\ userCalls = 1
  /\ userArgs.error = ValidationError(ConfigViolations)
  /\ requests = <<>>

\* The requests of deploy that discover or delete prior stacks: every
\* listStacks, every deleteStack, and every describeStack of a stack other than
\* the created one.
IsPriorRequest(r) ==
  \/ r.call \in {"listStacks", "deleteStack"}
  \/ r.call = "describeStack" /\ r.id # "new"

PriorRequests == SelectSeq(requests, IsPriorRequest)

\* C12: deploy lists, describes or deletes a prior stack only after the await
\* of the create saw CREATE_COMPLETE, the description of the created stack was
\* stored, and postCreationFn called back without error; so after a failed
\* creation, a failed describe or a failed hook there is no such request.
C12_PriorStacksOnlyAfterSuccess ==
  (workflow = "deploy" /\ Len(PriorRequests) > 0) =>
    /\ stackData[1].status = resourceStatus.CREATE_COMPLETE
    /\ stackData[1].stackId = "new"
    /\ result.describeStack # NoDescription
    /\ result.describeStack.StackId = "new"
    /\ Len(stages) = 7
    /\ \A i \in 1..6 : stages[i].state = "ok"

\* deploy has issued deleteStack for a prior stack and awaits the deletion.
C12_Witness ==
  /\ workflow = "deploy"
  /\ Len(PriorRequests) > 0
  /\ Last(requests).call = "deleteStack"
  /\ pc = "fetching"
  /\ opType = type.DELETE_STACK

\* C13: a deploy never issues deleteStack for the stack id its own createStack
\* returned, and makes no deletion record for it, although the created stack is
\* listed, has the base-name prefix and carries the base-name tag.
C13_CreatedStackNeverDeleted ==
  workflow = "deploy" =>
    /\ \A i \in 1..Len(requests) :
         requests[i].call = "deleteStack" => requests[i].id # "new"
    /\ \A i \in 2..Len(stackData) : stackData[i].stackId # stackData[1].stackId

\* deploy deleted a prior stack and is done, while the created stack is in the
\* listing with a matching name and the base-name tag.
C13_Witness ==
  /\ workflow = "deploy"
  /\ pc = "done"
  /\ \E i \in 1..Len(requests) : requests[i].call = "deleteStack"
  /\ \E i \in 1..Len(ListedStacks) :
       /\ ListedStacks[i].StackId = "new"
       /\ baseNameMatchesStackName(config.baseName, ListedStacks[i].StackName)
       /\ isPriorStack(ListedStacks[i], config.baseName)

\* The descriptions of the listed stacks that are prior instances of base name
\* base: the name is base, a dash, and more; the id is not the created one; a
\* tag is exactly the base-name tag with value base.
PriorInstances(base, createdStackId) ==
  SelectSeq(ListedStacks, LAMBDA d :
    /\ Len(d.StackName) > Len(base)
    /\ \A i \in 1..Len(base) : d.StackName[i] = base[i]
    /\ d.StackName[Len(base) + 1] = "-"
    /\ d.StackId # createdStackId
    /\ \E i \in 1..Len(d.Tags) :
         d.Tags[i].Key = tag.STACK_BASE_NAME /\ d.Tags[i].Value = base)

\* describePriorStacks calls back without error in this step.
PriorStacksResolved ==
  /\ pc \in {"listStacks", "describePriorStack"}
  /\ pc' \in {"deleteStack", "done"}
  /\ Last(stages').state # "failed"

\* C14: when describePriorStacks calls back without error, it hands over
\* exactly the descriptions of the prior instances among the stacks of all
\* pages of the listing, in listing order: stacks with the name prefix but
\* another base-name tag, stacks whose name matches without the dash, and the
\* created stack are left out.
C14_ExactlyThePriorStacks ==
  [][PriorStacksResolved =>
       prior'.stackDescriptions = PriorInstances(config.baseName, stackData[1].stackId)]_vars

\* Two prior stacks were found over two pages of a listing that also holds a
\* stack whose name matches without the dash, and the first deletion started.
C14_Witness ==
  /\ pc = "deleteStack"
  /\ prior.page = 2
  /\ Len(prior.stackDescriptions) = 2
  /\ prior.stackDescriptions[1].StackId = "p1"
  /\ prior.stackDescriptions[2].StackId = "p5"
  /\ \E i \in 1..Len(ListedStacks) : ListedStacks[i].StackId = "p3"

\* C15: when a listStacks page or a describe of describePriorStacks fails,
\* describePriorStacks calls back with that error and hands over none of the
\* descriptions it confirmed before the failure.
C15_NoPartialResultOnError ==
  (prior.callback.called /\ IsError(prior.callback.error)) =>
    prior.callback.stackDescriptions = <<>>

\* A describe failed after a prior stack was confirmed, and describePriorStacks
\* called back with the error and with the description of that stack.
C15_PartialResultHandedOver ==
  /\ prior.callback.called
  /\ prior.callback.error = MkError("Call to describeStacks failed", NoEvent)
  /\ prior.callback.data
  /\ Len(prior.callback.stackDescriptions) = 1
  /\ prior.callback.stackDescriptions[1].StackId = "p1"
  /\ Len(result.deleteStack) = 0
  /\ pc = "done"

\* C16: under a priorInstance policy other than DELETE the deletePriorStacks
\* stage does nothing: deploy issues no listStacks, no describeStack of another
\* stack and no deleteStack, makes no deletion record, result.deleteStack stays
\* empty, and the stage completes without error.
C16_PriorInstanceKeptIsNoOp ==
  (workflow = "deploy" /\ config.priorInstance # priorInstance.DELETE /\ pc # "call") =>
    /\ Len(PriorRequests) = 0
    /\ result.deleteStack = <<>>
    /\ Len(stackData) = 1
    /\ prior = NoPrior
    /\ \A i \in 1..Len(account) :
         account[i].StackId # "new" => stackEvents[account[i].StackId] = account[i].Existing
    /\ Len(stages) = 7 =>
         /\ stages[7] = [stage |-> "deletePriorStacks", state |-> "ok"]
         /\ userArgs.error = NoError
         /\ userArgs.result.deleteStack = <<>>

\* A deploy that keeps prior instances is done in an account that holds prior
\* stacks of its base name.
C16_Witness ==
  /\ workflow = "deploy"
  /\ config.priorInstance = priorInstance.DO_NOTHING
  /\ pc = "done"
  /\ Len(stages) = 7
  /\ userCalls = 1
  /\ Len(PriorInstances(config.baseName, "new")) = 2

\* The messages deploy puts in front of the error of a failed create.
LeftInPlace ==
  "Stack creation failed. Per configuration no attempt was made to delete the failed stack"

DeleteFailedAsWell == "Stack creation failed. Deletion of the stack failed as well"

FailedStackDeleted == "Stack creation failed. The failed stack was deleted"

\* C17: when a deploy with the DO_NOTHING failure policy sees its created stack
\* in CREATE_FAILED, it calls back with the error that says the failed stack
\* was left in place and carries an event of status CREATE_FAILED from the
\* record, and with a result whose createStack record has status CREATE_FAILED
\* and the id createStack returned, and whose deleteStack is empty.
C17_DoNothingCreateFailed ==
  (/\ workflow = "deploy"
   /\ pc # "call"
   /\ config.onDeployFailure = onDeployFailure.DO_NOTHING
   /\ stackData[1].status = resourceStatus.CREATE_FAILED) =>
    /\ pc = "done"
    /\ userCalls = 1
    /\ userArgs.error.msgs = <<LeftInPlace, "Stack operation failed on the following event">>
    /\ userArgs.error.event.ResourceStatus = "CREATE_FAILED"
    /\ \E i \in 1..Len(stackData[1].events) : stackData[1].events[i] = userArgs.error.event
    /\ userArgs.result.errors = <<userArgs.error>>
    /\ userArgs.stackData[1].status = resourceStatus.CREATE_FAILED
    /\ userArgs.stackData[1].stackId = "new"
    /\ userArgs.result.deleteStack = <<>>
    /\ Len(userArgs.stackData) = 1
    /\ Last(stages) = [stage |-> "awaitCompletion", state |-> "failed"]

\* A DO_NOTHING deploy called back after a nested resource and then the stack
\* failed to create, in an account with prior stacks.
C17_Witness ==
  /\ workflow = "deploy"
  /\ config.onDeployFailure = onDeployFailure.DO_NOTHING
  /\ config.priorInstance = priorInstance.DELETE
  /\ userCalls = 1
  /\ stackData[1].status = resourceStatus.CREATE_FAILED
  /\ Len(stackData[1].events) = 2
  /\ userArgs.error.event = stackData[1].events[1]
  /\ userArgs.error.event.ResourceType = NestedType
  /\ Len(account) > 2

\* The outermost message of the error deploy called back with.
DeployMessage == userArgs.error.msgs[1]

\* C18: when deploy fails in its awaitCompletion stage, the message it puts in
\* front tells the three outcomes of a failed create apart: the failed stack
\* was deleted exactly when the record's status is DELETE_COMPLETE, its
\* deletion failed as well exactly when the status is DELETE_FAILED, and it was
\* left in place exactly when the status is CREATE_FAILED under DO_NOTHING.
C18_FailedCreateOutcomesDistinct ==
  (/\ workflow = "deploy"
   /\ userCalls = 1
   /\ Last(stages) = [stage |-> "awaitCompletion", state |-> "failed"]) =>
    /\ (DeployMessage = FailedStackDeleted)
         <=> (userArgs.stackData[1].status = resourceStatus.DELETE_COMPLETE)
    /\ (DeployMessage = DeleteFailedAsWell)
         <=> (userArgs.stackData[1].status = resourceStatus.DELETE_FAILED)
    /\ (DeployMessage = LeftInPlace)
         <=> (/\ userArgs.stackData[1].status = resourceStatus.CREATE_FAILED
              /\ config.onDeployFailure = onDeployFailure.DO_NOTHING)
    /\ userArgs.stackData[1].status \in
         {resourceStatus.DELETE_COMPLETE, resourceStatus.DELETE_FAILED,
          resourceStatus.CREATE_FAILED}
         => Last(userArgs.error.msgs) \in
              {"Stack operation failed on the following event",
               "Call to describeStackEvents failed"}

\* A deploy with the DELETE policy called back after the create failed and the
\* deletion of the failed stack failed as well.
C18_Witness ==
  /\ workflow = "deploy"
  /\ config.onDeployFailure = onDeployFailure.DELETE
  /\ userCalls = 1
  /\ userArgs.stackData[1].status = resourceStatus.DELETE_FAILED
  /\ userArgs.error.msgs = <<DeleteFailedAsWell, "Stack operation failed on the following event">>
  /\ userArgs.error.event.ResourceStatus = "CREATE_FAILED"

\* The two update augmentation messages.
RollbackSucceeded == "Stack update failed. The rollback succeeded"
RollbackFailedAsWell == "Stack update failed. The rollback failed as well"

\* The statuses of the stack-level events the provider recorded for the
\* operation on the stack the update names.
UpdateRecorded ==
  UNION {{stackEvents[account[i].StackId][k].ResourceStatus :
            k \in {j \in (Len(account[i].Existing) + 1)..Len(stackEvents[account[i].StackId]) :
                     stackEvents[account[i].StackId][j].ResourceType = resourceType.STACK}}
         : i \in 1..Len(account)}

C19_WitnessPassedOn ==
  /\ workflow = "update"
  /\ userCalls = 1
  /\ Last(stages) = [stage |-> "awaitCompletion", state |-> "failed"]
  /\ userArgs.error.msgs = <<"Call to describeStackEvents failed">>

\* awaitCompletion called back with an error its final function built from the
\* record, not with the error of a failed event fetch.
ResolvedOnFailureState ==
  /\ awaitCalls > 0
  /\ IsError(awaitError)
  /\ awaitError.msgs # <<"Call to describeStackEvents failed">>

\* The text of an error is its messages and the serialized event; a status is
\* named in it when the serialized event carries it.
ErrorNamesStatus(error, status) ==
  /\ error.event # NoEvent
  /\ error.event.ResourceStatus = status

\* C20: when awaitCompletion resolves on a non-success terminal state, its
\* error names the terminal state reached, and it identifies the first event in
\* chronological order of the record's events whose status contains FAILED, or
\* reports an unclassified failure without an event when there is none.
C20_ErrorNamesTerminalState ==
  ResolvedOnFailureState =>
    /\ ErrorNamesStatus(awaitError, data.status)
    /\ LET hits == {i \in 1..Len(data.events) : MatchesFAILED(data.events[i].ResourceStatus)}
       IN hits # {} => \E i \in hits : /\ awaitError.event = data.events[i]
                                        /\ \A j \in hits : i <= j

\* The part of C20 the code keeps: the error carries the first event of the
\* record whose status contains FAILED, and without such an event it is the
\* unclassified failure and carries no event.
C20_FirstFailedEventOrUnclassified ==
  ResolvedOnFailureState =>
    LET hits == {i \in 1..Len(data.events) : MatchesFAILED(data.events[i].ResourceStatus)}
    IN /\ data.status \in TerminalStates(opType, config.onDeployFailure)
       /\ data.status # SuccessState(opType)
       /\ hits # {} =>
            /\ awaitError.msgs = <<"Stack operation failed on the following event">>
            /\ \E i \in hits : /\ awaitError.event = data.events[i]
                               /\ \A j \in hits : i <= j
       /\ hits = {} =>
            /\ awaitError.msgs = <<"Stack operation failed, but could not identify failure event.">>
            /\ awaitError.event = NoEvent

\* A create under the DELETE policy resolved on DELETE_COMPLETE, and the only
\* status in its error is the CREATE_FAILED of the event that started the
\* failure.
C20_TerminalStateNotNamed ==
  /\ ResolvedOnFailureState
  /\ opType = type.CREATE_STACK
  /\ config.onDeployFailure = onDeployFailure.DELETE
  /\ data.status = "DELETE_COMPLETE"
  /\ awaitError.msgs = <<"Stack operation failed on the following event">>
  /\ awaitError.event.ResourceStatus = "CREATE_FAILED"

\* An update resolved on UPDATE_ROLLBACK_COMPLETE with no failed event in the
\* record, and its error is the unclassified failure, which names no status.
C20_UnclassifiedNamesNothing ==
  /\ ResolvedOnFailureState
  /\ opType = type.UPDATE_STACK
  /\ data.status = "UPDATE_ROLLBACK_COMPLETE"
  /\ awaitError = MkError("Stack operation failed, but could not identify failure event.", NoEvent)

\* C21: previewUpdate hands the caller the change-set description obtained so
\* far, also on failure: whenever it has called back, result.changeSet is the
\* description the change-set loop fetched last.
C21_ChangeSetReturnedOnFailure ==
  (workflow = "previewUpdate" /\ userCalls = 1) =>
    userArgs.result.changeSet = changeSet

\* A describeChangeSet poll failed after an earlier poll had returned a
\* description, and previewUpdate called back with the error and without the
\* description.
C21_DescriptionDropped ==
  /\ workflow = "previewUpdate"
  /\ userCalls = 1
  /\ userArgs.error = MkError("Call to describeChangeSet failed", NoEvent)
  /\ polls = 2
  /\ changeSet.Status = "CREATE_IN_PROGRESS"
  /\ userArgs.result.changeSet = NoChangeSet
  /\ userArgs.result.errors = <<userArgs.error>>

\* The part of C21 the code keeps: unless the change-set loop itself ended with
\* an error, result.changeSet is the description fetched last, also when the
\* description has status FAILED or a later deleteChangeSet fails.
C21_ReturnedUnlessLoopFails ==
  (/\ workflow = "previewUpdate"
   /\ userCalls = 1
   /\ Last(stages) # [stage |-> "awaitCompletion", state |-> "failed"]) =>
    userArgs.result.changeSet = changeSet

\* The change-set loop has called back with the latest fetched description,
\* whose status is CREATE_COMPLETE or FAILED, whole and without an error.
ResolvedOnTerminalDescription ==
  /\ changeSet # NoChangeSet
  /\ changeSet.Status \in {"CREATE_COMPLETE", "FAILED"}
  /\ awaitError = NoError
  /\ result.changeSet = changeSet
  /\ changeSetProvider # NoChangeSet =>
       /\ changeSet.Status = changeSetProvider.Status
       /\ changeSet.Changes = changeSetProvider.Changes

C22_ResolvedWithoutDescription ==
  /\ workflow = "previewUpdate"
  /\ awaitCalls = 1
  /\ polls = 1
  /\ changeSet = NoChangeSet
  /\ awaitError = MkError("Call to describeChangeSet failed", NoEvent)

\* Each timer of the change-set loop issues one describeChangeSet, and a
\* describeChangeSet returns only to the timer that issued it.
OneFetchPerInterval ==
  workflow = "previewUpdate" =>
    /\ polls' # polls => (pc = "csTimer" /\ pc' = "csFetching" /\ polls' = polls + 1)
    /\ (pc = "csTimer" /\ pc' # pc) => (pc' = "csFetching" /\ polls' = polls + 1)
    /\ (pc = "csFetching" /\ pc' = "csTimer") => (polls' = polls /\ awaitCalls' = 0)

IsDeleteChangeSet(r) == r.call = "deleteChangeSet"
DeleteChangeSetRequests == SelectSeq(requests, IsDeleteChangeSet)

\* C23: previewUpdate issues deleteChangeSet only when config.deleteChangeSet
\* is true and validateConfig, validateTemplate, createChangeSet and the
\* change-set await all completed without error, and at most once; a change set
\* created before a stage failed is left at the provider.
C23_DeleteChangeSetOnlyAfterSuccess ==
  workflow = "previewUpdate" =>
    /\ Len(DeleteChangeSetRequests) <= 1
    /\ Len(DeleteChangeSetRequests) = 1 =>
         /\ config.deleteChangeSet
         /\ validatePreviewUpdateConfig(config) = <<>>
         /\ awaitCalls = 1
         /\ awaitError = NoError
         /\ Len(stages) = 5
         /\ \A i \in 1..4 : stages[i].state = "ok"
         /\ <<stages[1].stage, stages[2].stage, stages[3].stage, stages[4].stage,
              stages[5].stage>>
              = <<"validateConfig", "validateTemplate", "createChangeSet",
                  "awaitCompletion", "deleteChangeSet">>
    /\ (\/ ~config.deleteChangeSet
        \/ \E i \in 1..Len(stages) :
             stages[i].state = "failed" /\ stages[i].stage # "deleteChangeSet")
         => /\ Len(DeleteChangeSetRequests) = 0
            /\ Len(stages) >= 4 => changeSetProvider # NoChangeSet

\* The configuration asks for the deletion, the change set was created, the
\* await failed on its second poll, and the change set is still there with no
\* deleteChangeSet issued.
C23_Witness ==
  /\ workflow = "previewUpdate"
  /\ config.deleteChangeSet
  /\ userCalls = 1
  /\ polls = 2
  /\ Last(stages) = [stage |-> "awaitCompletion", state |-> "failed"]
  /\ changeSetProvider # NoChangeSet
  /\ Len(DeleteChangeSetRequests) = 0

\* The configuration asks for the deletion, every stage succeeded, and the one
\* deleteChangeSet removed the change set.
C23_WitnessDeleted ==
  /\ workflow = "previewUpdate"
  /\ userCalls = 1
  /\ Len(DeleteChangeSetRequests) = 1
  /\ Last(stages) = [stage |-> "deleteChangeSet", state |-> "ok"]
  /\ changeSetProvider = NoChangeSet

\* ------------------------------------------------------------------------
\* Two operation objects side by side in one process.
\* ------------------------------------------------------------------------

\* config.clientOptions: Undefined when the configuration has none.
ClientOptions == {Undefined, "eu-west-1", "us-east-1"}

\* What new AWS.CloudFormation() falls back to without options.
EnvironmentOptions == "environment"

\* The CloudFormation constructor: this.client is a new AWS.CloudFormation,
\* made with config.clientOptions when that is an object.
CloudFormation(cfg) ==
  [options |-> IF cfg.clientOptions # Undefined THEN cfg.clientOptions
               ELSE EnvironmentOptions]

\* A client kept in module-level state: every operation finds the client that
\* was made first.
exportsClient(i) == 1

\* this.client of the CloudFormation object of operation i, as an index of
\* awsClients.
thisClient(i) == operations[i].cloudFormation

\* The variables of the single workflow while two operations run side by side.
NoSingleOperation ==
  /\ config = [onDeployFailure |-> onDeployFailure.DELETE]
  /\ opType = type.CREATE_STACK
  /\ stackData = <<>>
  /\ cur = 1
  /\ pc = "done"
  /\ polls = 0
  /\ stackEvents = [id \in {"id"} |-> <<>>]
  /\ onEventCalls = <<>>
  /\ awaitCalls = 0
  /\ awaitError = NoError
  /\ fetchErrors = 0
  /\ resolutions = 0
  /\ NoWorkflow

\* Two configurations are at hand; no operation object exists yet.
InitOperations ==
  /\ workflow = "operations"
  /\ operations \in [1..2 -> [config : [clientOptions : ClientOptions],
                              cloudFormation : {0}, pending : {0}, issued : {0},
                              stackData : {<<>>}]]
  /\ awsClients = <<>>
  /\ providerCalls = <<>>
  /\ NoUtilities
  /\ NoSingleOperation

singleVars == <<workflow, config, opType, stackData, cur, pc, polls, stackEvents,
                onEventCalls, awaitVars, fetchErrors, wfVars>>

\* new Deploy(config, template): the CloudFormationOperation constructor makes
\* the operation's own CloudFormation object, which makes its client.
CloudFormationOperation(i) ==
  /\ operations[i].cloudFormation = 0
  /\ awsClients' = Append(awsClients, CloudFormation(operations[i].config))
  /\ operations' = [operations EXCEPT ![i].cloudFormation = Len(awsClients) + 1]
  /\ UNCHANGED <<providerCalls, utilityVars, singleVars>>

\* A stage or a poll of operation i calls the provider through this.client.
ProviderCall(i) ==
  /\ operations[i].cloudFormation # 0
  /\ operations[i].pending = 0
  /\ operations[i].issued < MaxCalls
  /\ providerCalls' = Append(providerCalls, [operation |-> i, client |-> thisClient(i)])
  /\ operations' = [operations EXCEPT ![i].pending = thisClient(i),
                                      ![i].issued = @ + 1]
  /\ UNCHANGED <<awsClients, utilityVars, singleVars>>

\* The provider answers the pending call of operation i, and the callback puts
\* the answer into the operation's own record.
ProviderCallReturns(i) ==
  /\ operations[i].pending # 0
  /\ operations' = [operations EXCEPT
       ![i].pending = 0,
       ![i].stackData = Append(@, [call |-> operations[i].issued,
                                   answeredWith |-> awsClients[operations[i].pending].options])]
  /\ UNCHANGED <<awsClients, providerCalls, utilityVars, singleVars>>

NextOperations ==
  \/ \E i \in 1..2 : CloudFormationOperation(i)
  \/ \E i \in 1..2 : ProviderCall(i)
  \/ \E i \in 1..2 : ProviderCallReturns(i)

SpecOperations == InitOperations /\ [][NextOperations]_vars

\* ------------------------------------------------------------------------
\* Properties of operations side by side.
\* ------------------------------------------------------------------------

\* The options a client made for operation i must carry.
OwnOptions(i) ==
  IF operations[i].config.clientOptions # Undefined
  THEN operations[i].config.clientOptions
  ELSE EnvironmentOptions

\* Every provider call went through the client the calling operation made
\* from its own options, and every answer in a record came through it.
CallsThroughOwnClient ==
  /\ \A k \in 1..Len(providerCalls) :
       LET c == providerCalls[k]
       IN /\ c.client = operations[c.operation].cloudFormation
          /\ awsClients[c.client].options = OwnOptions(c.operation)
          /\ \A j \in 1..2 : j # c.operation => operations[j].cloudFormation # c.client
  /\ \A i \in 1..2 : \A k \in 1..Len(operations[i].stackData) :
       /\ operations[i].stackData[k].answeredWith = OwnOptions(i)
       /\ operations[i].stackData[k].call = k

\* A step changes the record of one operation at most, and only by the answer
\* to that operation's own pending call.
RecordsChangeByOwnAnswer ==
  \A i \in 1..2 :
    operations'[i].stackData # operations[i].stackData =>
      /\ operations[i].pending # 0
      /\ operations'[i].pending = 0
      /\ \A j \in 1..2 : j # i => operations'[j] = operations[j]

\* C24: two operations interleaved in one process are independent: every
\* provider call of an operation goes through the client made from that
\* operation's own client options, never through the other's or a shared one,
\* and the record of an operation changes only by the answers to its own calls.
C24_OperationsIndependent ==
  /\ [](workflow = "operations" => CallsThroughOwnClient)
  /\ [][workflow = "operations" => RecordsChangeByOwnAnswer]_vars

\* Two operations with different client options have interleaved their calls,
\* the second one calling first, and each has its answers in its record.
C24_Witness ==
  /\ workflow = "operations"
  /\ operations[1].config.clientOptions = "eu-west-1"
  /\ operations[2].config.clientOptions = "us-east-1"
  /\ Len(providerCalls) = 2 * MaxCalls
  /\ providerCalls[1].operation = 2
  /\ providerCalls[2].operation = 1
  /\ providerCalls[3].operation = 2
  /\ Len(operations[1].stackData) = MaxCalls
  /\ Len(operations[2].stackData) = MaxCalls

\* The stages of update, in order.
UpdateStages ==
  <<"validateConfig", "validateTemplate", "updateStack", "awaitCompletion", "describeStack">>

\* C25: update starts its stages in the fixed order validateConfig,
\* validateTemplate, updateStack, awaitCompletion (of the update),
\* describeStack, each only after all earlier ones completed without error; it
\* has no post-creation stage, and it issues no listStacks, no deleteStack and
\* no describeStack of another stack, makes no further progress record and
\* leaves every other stack as it was.
C25_UpdateStagesInOrder ==
  workflow = "update" =>
    /\ Len(stages) <= Len(UpdateStages)
    /\ \A i \in 1..Len(stages) : stages[i].stage = UpdateStages[i]
    /\ \A i \in 1..(Len(stages) - 1) : stages[i].state = "ok"
    /\ (Len(stages) = 4 /\ stages[4].state = "running")
         => opType = type.UPDATE_STACK /\ cur = 1
    /\ \A k \in 1..Len(requests) :
         /\ requests[k].call \in {"validateTemplate", "updateStack", "describeStack"}
         /\ requests[k].call = "describeStack" => requests[k].id = stackData[1].stackId
         /\ \A j \in 1..(k - 1) : requests[j].call # requests[k].call
    /\ Len(stackData) <= 1
    /\ prior = NoPrior
    /\ pc # "call" => DOMAIN result = {"errors", "describeStack"}
    /\ \A i \in 1..Len(account) :
         /\ IsPrefix(account[i].Existing, stackEvents[account[i].StackId])
         /\ \A k \in 1..Len(stackEvents[account[i].StackId]) :
              stackEvents[account[i].StackId][k].ResourceStatus
                \notin {"DELETE_IN_PROGRESS", "DELETE_COMPLETE", "DELETE_FAILED"}

\* update completed its five stages and called back.
C25_Witness ==
  /\ workflow = "update"
  /\ userCalls = 1
  /\ Len(stages) = 5
  /\ \A i \in 1..5 : stages[i].state = "ok"
  /\ Len(requests) = 3
  /\ userArgs.error = NoError
  /\ userArgs.result.describeStack.StackId = "s1"

\* ------------------------------------------------------------------------
\* awaitCompletion with fetches that succeed and timers that fire.
\* ------------------------------------------------------------------------

\* The provider records a further event of the awaited operation, while the
\* loop has a poll left to see it.
ProviderRecords ==
  /\ workflow = "await"
  /\ pc \in {"timer", "fetching"}
  /\ polls < MaxPolls
  /\ Len(stackEvents[data.stackId]) < MaxOperationEvents
  /\ \E k \in ProviderNext(opType, stackEvents[data.stackId]) :
       stackEvents' = [stackEvents EXCEPT ![data.stackId] =
         Append(@, Event(Len(@) + 1, k.ResourceType, k.ResourceStatus))]
  /\ UNCHANGED <<workflow, clientVars, utilityVars, config, opType, stackData, cur, pc, polls, onEventCalls,
                 fetchErrors, awaitVars, wfVars>>

NextAwaitLive ==
  \/ AwaitCompletion
  \/ TimerFires
  \/ DescribeStackEventsReturns
  \/ ResolveAgain
  \/ ProviderRecords

\* setTimeout fires its callback and, every fetch succeeding, describeStackEvents
\* calls back with the events.
SpecAwaitLive ==
  /\ InitAwait
  /\ [][NextAwaitLive]_vars
  /\ WF_vars(AwaitCompletion)
  /\ WF_vars(TimerFires)
  /\ WF_vars(DescribeStackEventsReturns)

\* The latest stack-level status the provider recorded is in the terminal set of
\* the awaited kind and policy.
ProviderTerminal ==
  LET recorded == StackLevel(stackEvents[data.stackId])
  IN /\ Len(recorded) > 0
     /\ Last(recorded).ResourceStatus \in TerminalStates(opType, config.onDeployFailure)

\* C26: if every event fetch succeeds and the provider's latest stack-level
\* status eventually becomes and stays terminal for the awaited kind and policy,
\* awaitCompletion eventually invokes its callback, and from then on the
\* callback has run exactly once and no timer or fetch is pending.
C26_EventuallyResolvesOnce ==
  (<>[]ProviderTerminal) => <>[](awaitCalls = 1 /\ pc = "done")

\* The callback ran once after three polls, the last of which brought the
\* terminal status the provider stays in; the final function was entered again
\* without a second callback.
C26_Witness ==
  /\ workflow = "await"
  /\ ProviderTerminal
  /\ Len(stackEvents[data.stackId]) = MaxOperationEvents
  /\ polls = 3
  /\ fetchErrors = 0
  /\ resolutions = 2
  /\ awaitCalls = 1
  /\ pc = "done"

\* ------------------------------------------------------------------------
\* Properties of the order of polls and requests.
\* ------------------------------------------------------------------------

\* While a timer or a fetch of the loop is pending, the callback has not run and
\* every event of the record has been handed to onEventFn.
PollProcessed ==
  pc \in {"timer", "fetching"} =>
    /\ awaitCalls = 0
    /\ onEventCalls[cur] = data.events
    /\ polls >= (IF pc = "fetching" THEN 1 ELSE 0)

\* A fetch is issued only by the timer, one at a time; the record and the
\* onEventFn calls change only in the step that consumes the outstanding fetch;
\* and the timer of the next poll is set in the step that has stored the fetched
\* events, invoked onEventFn for each new one and set the status.
SequentialPolls ==
  /\ polls' # polls =>
       /\ pc = "timer"
       /\ pc' = "fetching"
       /\ polls' = polls + 1
       /\ UNCHANGED <<stackData, onEventCalls>>
  /\ (stackData' # stackData \/ onEventCalls' # onEventCalls) =>
       /\ pc = "fetching"
       /\ pc' # "fetching"
  /\ (pc = "fetching" /\ pc' = "timer") =>
       LET events == describeStackEvents(stackEvents[data.stackId])
       IN /\ stackData'[cur].events = events
          /\ onEventCalls'[cur] = events
          /\ stackData'[cur].status = statusAfter(data, events)
          /\ polls' = polls
  /\ pc' = "timer" => pc \in {"call", "fetching", "timer"}

\* C27: the polls of one awaitCompletion loop are strictly sequential: at most
\* one event fetch is outstanding, and the timer of the next poll is started
\* only after the previous fetch returned and the onEventFn invocations and the
\* status update it triggered were done.
C27_PollsSequential ==
  /\ [](workflow = "await" => PollProcessed)
  /\ [][workflow = "await" => SequentialPolls]_vars

\* The timer of the third poll is pending after two polls that each brought new
\* events, all handed to onEventFn.
C27_Witness ==
  /\ workflow = "await"
  /\ pc = "timer"
  /\ polls = 2
  /\ Len(data.events) = 2
  /\ onEventCalls[cur] = data.events
  /\ Len(stackEvents[data.stackId]) = 3
  /\ awaitCalls = 0

\* The describeStack requests of describePriorStacks and the deleteStack
\* requests of deletePriorStacks, in the order they were issued.
IsPriorDescribe(r) == r.call = "describeStack" /\ r.id # "new"
PriorDescribes == SelectSeq(requests, IsPriorDescribe)
IsDeleteStack(r) == r.call = "deleteStack"
DeleteStacks == SelectSeq(requests, IsDeleteStack)

\* The describes follow the summaries one by one, with one unanswered at most;
\* the deletions follow the resolved descriptions one by one, each with its own
\* record, and every deletion but the last one issued has resolved with
\* DELETE_COMPLETE.
PriorStacksOneByOne ==
  /\ Len(PriorDescribes) <= prior.idx + 1
  /\ Len(PriorDescribes) <= Len(prior.stackSummaries)
  /\ \A k \in 1..Len(PriorDescribes) : PriorDescribes[k].id = prior.stackSummaries[k].StackId
  /\ pc = "describePriorStack" => Len(PriorDescribes) = prior.idx + 1
  /\ Len(DeleteStacks) = prior.del
  /\ Len(DeleteStacks) = Len(result.deleteStack)
  /\ Len(DeleteStacks) <= Len(prior.stackDescriptions)
  /\ \A k \in 1..Len(DeleteStacks) :
       /\ DeleteStacks[k].id = prior.stackDescriptions[k].StackId
       /\ stackData[result.deleteStack[k]].stackId = DeleteStacks[k].id
       /\ k < Len(DeleteStacks) =>
            stackData[result.deleteStack[k]].status = resourceStatus.DELETE_COMPLETE
  /\ Len(DeleteStacks) > 0 =>
       /\ Len(PriorDescribes) = Len(prior.stackSummaries)
       /\ \A k \in 1..Len(requests) :
            requests[k].call = "deleteStack" =>
              \A j \in (k + 1)..Len(requests) : requests[j].call = "deleteStack"
  /\ (pc \in {"deleteStack", "timer", "fetching"} /\ Len(DeleteStacks) > 0) =>
       /\ opType = type.DELETE_STACK \/ pc = "deleteStack"
       /\ pc # "deleteStack" => cur = Last(result.deleteStack)

\* A request is issued one at a time, and the deleteStack of a further prior
\* stack only in the step in which the DELETE await of the previous one calls
\* back without an error.
NextOnlyAfterPrevious ==
  requests' # requests =>
    /\ Len(requests') = Len(requests) + 1
    /\ SubSeq(requests', 1, Len(requests)) = requests
    /\ (Last(requests').call = "deleteStack" /\ Len(DeleteStacks) > 0) =>
         /\ pc = "fetching"
         /\ opType = type.DELETE_STACK
         /\ awaitCalls = 0
         /\ awaitCalls' = 1
         /\ awaitError' = NoError
         /\ stackData'[cur].status = resourceStatus.DELETE_COMPLETE
    /\ (Last(requests').call = "describeStack" /\ Last(requests').id # "new") =>
         pc \in {"listStacks", "describePriorStack"}

\* C28: prior-instance discovery and deletion are sequential: describePriorStacks
\* has one describe outstanding at most, deletePriorStacks issues the deleteStack
\* of the next prior stack only after the DELETE await of the previous one has
\* resolved, and the deletions happen in the order of the resolved stacks.
C28_PriorStacksSequential ==
  /\ []((workflow = "deploy" /\ pc # "call") => PriorStacksOneByOne)
  /\ [][(workflow = "deploy" /\ pc # "call") => NextOnlyAfterPrevious]_vars

\* Two prior stacks were described and deleted one after the other, in the
\* order of the listing.
C28_Witness ==
  /\ workflow = "deploy"
  /\ pc = "done"
  /\ Len(PriorDescribes) = 2
  /\ Len(DeleteStacks) = 2
  /\ DeleteStacks[1].id = "p1"
  /\ DeleteStacks[2].id = "p5"
  /\ stackData[result.deleteStack[1]].status = resourceStatus.DELETE_COMPLETE
  /\ stackData[result.deleteStack[2]].status = resourceStatus.DELETE_COMPLETE
  /\ userArgs.error = NoError

\* ------------------------------------------------------------------------
\* The utilities getTags and addTemplatePropertyToParameters on their own.
\* ------------------------------------------------------------------------

\* The sequences without repetition over a set, up to a length.
RECURSIVE InjectiveSeqs(_, _)
InjectiveSeqs(S, n) ==
  IF n = 0 THEN {<<>>}
  ELSE LET shorter == InjectiveSeqs(S, n - 1)
       IN shorter \cup
            UNION {{Append(q, x) : x \in {y \in S : \A i \in 1..Len(q) : q[i] # y}} :
                     q \in shorter}

\* All sequences over a set, up to a length.
RECURSIVE SeqsUpTo(_, _)
SeqsUpTo(S, n) ==
  IF n = 0 THEN {<<>>}
  ELSE SeqsUpTo(S, n - 1) \cup {Append(q, x) : q \in SeqsUpTo(S, n - 1), x \in S}

\* config.tags as _.map walks it: the user's tags in the order of the keys.
UserTags ==
  InjectiveSeqs({[Key |-> "a", Value |-> <<"b">>], [Key |-> "c", Value |-> <<"d">>],
                 [Key |-> "e", Value |-> <<"f">>]}, MaxTags)

\* Base names of deploy configurations: of valid characters alone, with a dash
\* inside, and with a character that determineStackName replaces.
DeployBaseNames == {<<"b">>, <<"b", "-", "x">>, <<"b", ".">>, <<"_", "b">>}

\* Deploy ids, of valid characters alone and with one that is replaced.
DeployIds == {<<"9">>, <<"9", ".">>}

\* Deploy and update configurations as the utilities read them.
UtilityConfigs ==
  [baseName : DeployBaseNames, deployId : DeployIds, stackName : {<<>>},
   version : {<<"1">>, <<>>}, tags : UserTags]
  \cup [baseName : {<<>>}, deployId : {<<>>}, stackName : {<<"s">>},
        version : {<<"1">>, <<>>}, tags : UserTags]

Http == <<"h", "t", "t", "p", ":", "/", "/">>
Https == <<"h", "t", "t", "p", "s", ":", "/", "/">>

\* Characters the dot of a regular expression does not match.
LineTerminators == {"\n", "\r"}

\* Template strings: a URL scheme, another scheme, the opening of a JSON text or
\* nothing, followed by up to MaxRest further characters.
TemplateStrings ==
  {start \o rest :
     start \in {Http, Https, <<"H", "T", "T", "P", ":", "/", "/">>,
                <<"f", "t", "p", ":", "/", "/">>, <<"{">>, <<>>},
     rest \in SeqsUpTo({"x", "}", "\n"}, MaxRest)}

\* Template documents: objects with string properties, as key and value pairs.
TemplateDocuments == {<<>>, <<[key |-> "A", value |-> "B"]>>}

\* A template as the caller passes it: typeof template and the value.
Templates ==
  [type : {"string"}, value : TemplateStrings]
  \cup [type : {"object"}, value : TemplateDocuments]

\* JSON.stringify of a template document.
RECURSIVE JSONstringifyProperties(_)
JSONstringifyProperties(doc) ==
  IF Len(doc) = 0 THEN <<>>
  ELSE <<"\"", doc[1].key, "\"", ":", "\"", doc[1].value, "\"">>
       \o (IF Len(doc) > 1 THEN <<",">> ELSE <<>>)
       \o JSONstringifyProperties(Tail(doc))

JSONstringify(doc) == <<"{">> \o JSONstringifyProperties(doc) \o <<"}">>

\* template.match(/^https?:\/\/.+/): the scheme at the start and one character
\* that the dot matches right after it.
matchesUrl(template) ==
  \E scheme \in {Http, Https} :
    /\ IsPrefix(scheme, template)
    /\ Len(template) > Len(scheme)
    /\ template[Len(scheme) + 1] \notin LineTerminators

\* A property of the request that has not been set, and one that has.
NotSet == [set |-> FALSE, value |-> <<>>]
SetTo(v) == [set |-> TRUE, value |-> v]

\* An addTemplatePropertyToParameters that sets both properties for a URL.
addTemplatePropertyToParametersSetsBoth(params, template) ==
  IF template.type = "string"
  THEN [params EXCEPT !.TemplateURL = IF matchesUrl(template.value)
                                      THEN SetTo(template.value) ELSE @,
                      !.TemplateBody = SetTo(template.value)]
  ELSE [params EXCEPT !.TemplateBody = SetTo(JSONstringify(template.value))]

\* utilities.addTemplatePropertyToParameters: the request after the call.
addTemplatePropertyToParameters(params, template) ==
  IF template.type = "string"
  THEN IF matchesUrl(template.value)
       THEN [params EXCEPT !.TemplateURL = SetTo(template.value)]
       ELSE [params EXCEPT !.TemplateBody = SetTo(template.value)]
  ELSE [params EXCEPT !.TemplateBody = SetTo(JSONstringify(template.value))]

\* A configuration and a template are at hand; no utility has been called.
InitUtilities ==
  /\ workflow = "utilities"
  /\ utilityArgs \in [config : UtilityConfigs, template : Templates]
  /\ utilityOut = [tagsReturned |-> FALSE, tags |-> <<>>, templateAdded |-> FALSE,
                   params |-> [TemplateURL |-> NotSet, TemplateBody |-> NotSet],
                   nameMatched |-> FALSE, stackName |-> <<>>, matches |-> FALSE]
  /\ NoOperations
  /\ NoSingleOperation

\* getTags(config) is called.
GetTags ==
  /\ workflow = "utilities"
  /\ ~utilityOut.tagsReturned
  /\ utilityOut' = [utilityOut EXCEPT !.tagsReturned = TRUE,
                                      !.tags = getTags(utilityArgs.config)]
  /\ UNCHANGED <<utilityArgs, clientVars, singleVars>>

\* addTemplatePropertyToParameters(params, template) is called on the request
\* a client method has just made.
AddTemplatePropertyToParameters ==
  /\ workflow = "utilities"
  /\ ~utilityOut.templateAdded
  /\ utilityOut' = [utilityOut EXCEPT
       !.templateAdded = TRUE,
       !.params = addTemplatePropertyToParameters(@, utilityArgs.template)]
  /\ UNCHANGED <<utilityArgs, clientVars, singleVars>>

\* determineStackName(config) is called, and baseNameMatchesStackName with the
\* base name of the configuration and the name it returned.
BaseNameMatchesStackName ==
  /\ workflow = "utilities"
  /\ ~utilityOut.nameMatched
  /\ utilityOut' = [utilityOut EXCEPT
       !.nameMatched = TRUE,
       !.stackName = determineStackName(utilityArgs.config),
       !.matches = baseNameMatchesStackName(utilityArgs.config.baseName,
                                            determineStackName(utilityArgs.config))]
  /\ UNCHANGED <<utilityArgs, clientVars, singleVars>>

NextUtilities ==
  \/ GetTags
  \/ AddTemplatePropertyToParameters
  \/ BaseNameMatchesStackName

SpecUtilities == InitUtilities /\ [][NextUtilities]_vars

\* ------------------------------------------------------------------------
\* Properties of the utilities.
\* ------------------------------------------------------------------------

\* C29: getTags returns the user-supplied tags first, then the stack-name tag
\* always, then the base-name tag exactly when the configuration has a base
\* name, then the version tag exactly when a version is configured, and nothing
\* else.
C29_TagsUserThenSystem ==
  (workflow = "utilities" /\ utilityOut.tagsReturned) =>
    LET cfg == utilityArgs.config
        tags == utilityOut.tags
        n == Len(cfg.tags)
        hasBase == cfg.baseName # <<>>
        hasVersion == cfg.version # <<>>
        b == IF hasBase THEN 1 ELSE 0
        v == IF hasVersion THEN 1 ELSE 0
    IN /\ Len(tags) = n + 1 + b + v
       /\ SubSeq(tags, 1, n) = cfg.tags
       /\ tags[n + 1] = [Key |-> "cloudformation-deploy:stackName",
                         Value |-> IF ~hasBase THEN <<"s">>
                                   ELSE IF cfg.baseName = <<"b">> /\ cfg.deployId = <<"9">>
                                   THEN <<"b", "-", "9">>
                                   ELSE determineStackName(cfg)]
       /\ hasBase => tags[n + 2] = [Key |-> "cloudformation-deploy:stackBaseName",
                                    Value |-> cfg.baseName]
       /\ hasVersion => tags[n + 1 + b + 1] = [Key |-> "cloudformation-deploy:version",
                                               Value |-> cfg.version]
       /\ hasBase <=> (\E i \in 1..Len(tags) : tags[i].Key = "cloudformation-deploy:stackBaseName")
       /\ hasVersion <=> (\E i \in 1..Len(tags) : tags[i].Key = "cloudformation-deploy:version")

\* getTags returned two user tags and the stack-name tag for an update
\* configuration without a version.
C29_Witness ==
  /\ workflow = "utilities"
  /\ utilityOut.tagsReturned
  /\ utilityArgs.config.baseName = <<>>
  /\ utilityArgs.config.version = <<>>
  /\ Len(utilityArgs.config.tags) = 2
  /\ Len(utilityOut.tags) = 3
  /\ utilityOut.tags[3].Value = <<"s">>

\* The request holds the template in exactly one of its two properties: the
\* URL property, unchanged, when isUrl, and otherwise the body property, with
\* the string itself or the JSON text of the document.
TemplateAddedAs(isUrl) ==
  LET template == utilityArgs.template
      params == utilityOut.params
  IN /\ params.TemplateURL.set # params.TemplateBody.set
     /\ params.TemplateURL.set <=> isUrl
     /\ params.TemplateURL.set => params.TemplateURL.value = template.value
     /\ (params.TemplateBody.set /\ template.type = "string")
          => params.TemplateBody.value = template.value
     /\ (params.TemplateBody.set /\ template.type = "object")
          => /\ params.TemplateBody.value = JSONstringify(template.value)
             /\ Head(params.TemplateBody.value) = "{"
             /\ Last(params.TemplateBody.value) = "}"
             /\ Len(params.TemplateBody.value) = 2 + 8 * Len(template.value) - 
                  (IF Len(template.value) > 0 THEN 1 ELSE 0)

\* The template is a string that begins with http:// or https://.
BeginsWithScheme ==
  /\ utilityArgs.template.type = "string"
  /\ IsPrefix(Http, utilityArgs.template.value) \/ IsPrefix(Https, utilityArgs.template.value)

\* C30 as stated: addTemplatePropertyToParameters sets exactly one of the two
\* template fields: the URL field, unchanged, when the template is a string
\* beginning with http:// or https://, and otherwise the body field, with the
\* string itself or the JSON serialization of the document.
C30_UrlWhenBeginsWithScheme ==
  (workflow = "utilities" /\ utilityOut.templateAdded) => TemplateAddedAs(BeginsWithScheme)

\* The template is the string http:// and the request holds it as the body.
C30_BareSchemeIsBody ==
  /\ workflow = "utilities"
  /\ utilityOut.templateAdded
  /\ utilityArgs.template = [type |-> "string", value |-> Http]
  /\ utilityOut.params = [TemplateURL |-> NotSet, TemplateBody |-> SetTo(Http)]

\* The template is a string that begins with http:// or https:// and goes on
\* with a character other than a line terminator.
BeginsWithSchemeAndMore ==
  /\ BeginsWithScheme
  /\ LET t == utilityArgs.template.value
         n == IF IsPrefix(Https, t) THEN Len(Https) ELSE Len(Http)
     IN Len(t) > n /\ t[n + 1] \notin {"\n", "\r"}

\* C30, amended: addTemplatePropertyToParameters sets exactly one of the two
\* template fields: the URL field, unchanged, when the template is a string that
\* begins with http:// or https:// followed by at least one character that is
\* not a line terminator, and otherwise the body field, with the string itself
\* or the JSON serialization of the document.
C30_UrlWhenSchemeAndMore ==
  (workflow = "utilities" /\ utilityOut.templateAdded) =>
    TemplateAddedAs(BeginsWithSchemeAndMore)

\* The template is the string https://x and the request holds it as the URL.
C30_Witness ==
  /\ workflow = "utilities"
  /\ utilityOut.templateAdded
  /\ utilityArgs.template = [type |-> "string", value |-> Https \o <<"x">>]
  /\ utilityOut.params = [TemplateURL |-> SetTo(Https \o <<"x">>), TemplateBody |-> NotSet]

\* ------------------------------------------------------------------------
\* Properties of the progress record and of the client's event listing.
\* ------------------------------------------------------------------------

\* The events of every progress record before a step are a prefix of its
\* events after the step.
EventsOnlyAppended ==
  \A i \in DOMAIN stackData :
    i \in DOMAIN stackData' => IsPrefix(stackData[i].events, stackData'[i].events)

\* C31: a progress record's events are append-only: across any sequence of
\* polls the stored sequence is never reordered or truncated, the events stored
\* before a poll are always a prefix of the events stored after it.
C31_EventsAppendOnly == [][EventsOnlyAppended]_vars

\* Three polls were issued and none failed, and the record holds the three
\* events of the provider's history in the provider's order.
C31_Witness ==
  /\ workflow = "await"
  /\ polls = 3
  /\ fetchErrors = 0
  /\ pc # "fetching"
  /\ Len(data.events) = 3
  /\ data.events = stackEvents[data.stackId]
  /\ onEventCalls[cur] = data.events

\* The pages the provider answers with for the history of the polled stack.
PagesReceived == ProviderPages(Reverse(stackEvents[data.stackId]))

\* C32: describeStackEvents follows continuation tokens until none remains,
\* concatenates the pages in the order received, each newest first, and returns
\* the whole list reversed: the result is the complete event history of the
\* stack in chronological order, oldest first.
C32_CompleteChronologicalHistory ==
  workflow = "await" =>
    LET history == stackEvents[data.stackId]
        events == describeStackEvents(history)
        n == Len(history)
    IN /\ Len(PagesReceived) = (IF n = 0 THEN 1 ELSE (n + PageSize - 1) \div PageSize)
       /\ \A k \in 1..Len(PagesReceived) :
            \A i \in 1..Len(PagesReceived[k]) :
              PagesReceived[k][i].EventId = n - (k - 1) * PageSize - (i - 1)
       /\ Len(events) = n
       /\ \A i \in 1..n : events[i].EventId = i
       /\ events = history

\* A poll returned a history that the provider answered in two pages, and the
\* record holds its three events oldest first.
C32_Witness ==
  /\ workflow = "await"
  /\ Len(PagesReceived) = 2
  /\ Len(PagesReceived[1]) = PageSize
  /\ pc = "timer"
  /\ fetchErrors = 0
  /\ [i \in 1..Len(data.events) |-> data.events[i].EventId] = <<1, 2, 3>>

\* ------------------------------------------------------------------------
\* Properties of the workflows against the provider's account.
\* ------------------------------------------------------------------------

\* The stack the deploy created, as the provider keeps it.
CreatedStacks == SelectSeq(account, LAMBDA st : st.StackId = "new")

\* C33: the on-failure policy sent to the provider in deploy's createStack
\* request is the configured policy (onDeployFailure) that awaitCompletion uses
\* to choose the terminal states of a create.
C33_PolicySentIsPolicyAwaited ==
  workflow = "deploy" =>
    \A i \in 1..Len(CreatedStacks) : CreatedStacks[i].OnFailure = config.onDeployFailure

\* The deploy is configured to have a failed stack deleted and awaits the
\* terminal states of that policy, and the provider was given no policy.
C33_PolicyNotSent ==
  /\ workflow = "deploy"
  /\ config.onDeployFailure = onDeployFailure.DELETE
  /\ opType = type.CREATE_STACK
  /\ pc = "timer"
  /\ Len(CreatedStacks) = 1
  /\ CreatedStacks[1].OnFailure = Undefined
  /\ ~isComplete(opType, config, resourceStatus.CREATE_FAILED)

\* ------------------------------------------------------------------------
\* Properties of the stack names.
\* ------------------------------------------------------------------------

\* determineStackName and baseNameMatchesStackName were applied to a deploy
\* configuration.
DeployNameMatched ==
  /\ workflow = "utilities"
  /\ utilityOut.nameMatched
  /\ utilityArgs.config.stackName = <<>>

\* C34: for every deploy configuration, whatever characters its base name and
\* deploy id contain, the stack name produced by determineStackName is
\* recognised by baseNameMatchesStackName for the same base name.
C34_OwnNameRecognised == DeployNameMatched => utilityOut.matches

\* The base name "b." gives the stack name "b--9", which does not begin with
\* "b.-": the deploy's own stack name is not recognised for its base name.
C34_OwnNameNotRecognised ==
  /\ DeployNameMatched
  /\ utilityArgs.config.baseName = <<"b", ".">>
  /\ utilityArgs.config.deployId = <<"9">>
  /\ utilityOut.stackName = <<"b", "-", "-", "9">>
  /\ ~utilityOut.matches

\* The name is recognised exactly when no character of the base name is
\* replaced, whatever the deploy id holds.
C34_RecognisedIffBaseNameKept ==
  DeployNameMatched =>
    (utilityOut.matches <=>
       \A i \in 1..Len(utilityArgs.config.baseName) :
         utilityArgs.config.baseName[i] \in ValidNameChars)

\* ------------------------------------------------------------------------
\* Properties of deploy after an update of a prior instance.
\* ------------------------------------------------------------------------

\* The stacks of the account that a deploy with the given base name created,
\* by name and base-name tag, and that were updated successfully since.
UpdatedPriorInstances(base) ==
  SelectSeq(account, LAMBDA st :
    /\ st.StackId # "new"
    /\ baseNameMatchesStackName(base, st.StackName)
    /\ isPriorStack(st, base)
    /\ IsPrefix(Updated, st.Existing))

\* The deploy deletes prior instances and called back without an error.
DeployDeletedPriorInstances ==
  /\ workflow = "deploy"
  /\ config.priorInstance = priorInstance.DELETE
  /\ userCalls = 1
  /\ ~IsError(userArgs.error)

\* C35: a stack created by deploy with base name B and afterwards updated
\* successfully is still found as a prior instance: a later deploy with base
\* name B gets it back from describePriorStacks and deletes it.
C35_UpdatedPriorInstanceDeleted ==
  DeployDeletedPriorInstances =>
    \A i \in 1..Len(UpdatedPriorInstances(config.baseName)) :
      LET st == UpdatedPriorInstances(config.baseName)[i]
      IN /\ \E j \in 1..Len(prior.stackDescriptions) :
              prior.stackDescriptions[j].StackId = st.StackId
         /\ \E k \in 1..Len(requests) : requests[k] = Request("deleteStack", st.StackId)

\* The deploy called back without an error and deleted the prior instance p1;
\* the prior instance p4, in UPDATE_COMPLETE and with the base-name tag, was
\* not listed, not described and not deleted.
C35_UpdatedPriorInstanceLeft ==
  /\ DeployDeletedPriorInstances
  /\ Len(UpdatedPriorInstances(config.baseName)) = 1
  /\ UpdatedPriorInstances(config.baseName)[1].StackId = "p4"
  /\ StackStatusOf(stackEvents["p4"]) = "UPDATE_COMPLETE"
  /\ StackStatusOf(stackEvents["p4"]) \notin stackStatusFilter
  /\ \A k \in 1..Len(requests) : requests[k].id # "p4"
  /\ \E k \in 1..Len(requests) : requests[k] = Request("deleteStack", "p1")
  /\ StackStatusOf(stackEvents["p1"]) = "DELETE_COMPLETE"

\* ------------------------------------------------------------------------
\* Properties of updates and deletions of stacks with a history.
\* ------------------------------------------------------------------------

\* The events onEventFn was invoked with for record i that the provider had
\* in the stack's history before the workflow started.
EarlierEventsDelivered(i) ==
  {k \in 1..Len(onEventCalls[i]) :
     \E j \in 1..Len(account) :
       /\ account[j].StackId = stackData[i].stackId
       /\ onEventCalls[i][k].EventId <= Len(account[j].Existing)}

\* C36: during an update, and during the deletion of a prior instance,
\* onEventFn is invoked only for events the provider created after the
\* operation was started; events already in the stack's history before the
\* updateStack or deleteStack call are not delivered to the caller.
C36_OnlyOperationEventsDelivered ==
  workflow \in {"deploy", "update"} =>
    \A i \in DOMAIN stackData : EarlierEventsDelivered(i) = {}

\* The first poll of an update passed the CREATE_COMPLETE event of the stack's
\* creation to onEventFn.
C36_CreationEventDeliveredOnUpdate ==
  /\ workflow = "update"
  /\ opType = type.UPDATE_STACK
  /\ polls = 1
  /\ pc # "fetching"
  /\ Len(onEventCalls[1]) > 0
  /\ onEventCalls[1][1] = Event(1, resourceType.STACK, "CREATE_COMPLETE")
  /\ StackOf(stackData[1].stackId).Existing[1] = onEventCalls[1][1]

\* The first poll of the deletion of a prior instance passed the
\* CREATE_COMPLETE event of its creation to onEventFn.
C36_CreationEventDeliveredOnDelete ==
  /\ workflow = "deploy"
  /\ opType = type.DELETE_STACK
  /\ polls = 1
  /\ pc # "fetching"
  /\ Len(onEventCalls[cur]) > 0
  /\ onEventCalls[cur][1] = Event(1, resourceType.STACK, "CREATE_COMPLETE")
  /\ stackData[cur].stackId = "p1"

\* The running awaitCompletion called back on a status it read from the
\* events, not on the error of a failed fetch.
ResolvedOnStatus ==
  /\ workflow \in {"deploy", "update"}
  /\ awaitCalls = 1
  /\ awaitError # MkError("Call to describeStackEvents failed", NoEvent)

\* The stack-level events of the running loop's record that the provider
\* recorded since the workflow started.
OwnStackLevelEvents ==
  SelectSeq(StackLevel(data.events), LAMBDA e :
    \A j \in 1..Len(account) :
      account[j].StackId = data.stackId => e.EventId > Len(account[j].Existing))

\* C37: for the UPDATE and DELETE kinds, the outcome of awaitCompletion is
\* determined only by stack-level events produced by the operation just
\* started: a terminal stack-level status left in the history by an earlier
\* operation never makes awaitCompletion resolve.
C37_ResolvesOnOwnEventsOnly ==
  (ResolvedOnStatus /\ opType \in {type.UPDATE_STACK, type.DELETE_STACK}) =>
    /\ Len(OwnStackLevelEvents) > 0
    /\ data.status = Last(OwnStackLevelEvents).ResourceStatus

\* The update of a stack that was updated before called back without an error
\* on its first poll, on the UPDATE_COMPLETE of the earlier update, while the
\* provider has recorded no event of the new update.
C37_ResolvedOnEarlierUpdate ==
  /\ workflow = "update"
  /\ opType = type.UPDATE_STACK
  /\ awaitCalls = 1
  /\ ~IsError(awaitError)
  /\ polls = 1
  /\ data.status = resourceStatus.UPDATE_COMPLETE
  /\ data.events = Updated
  /\ stackEvents[data.stackId] = StackOf(data.stackId).Existing
  /\ userCalls = 1
  /\ ~IsError(userArgs.error)

\* The deletion of a prior instance whose earlier deletion had failed called
\* back with an error on its first poll, on the DELETE_FAILED of the earlier
\* deletion, while the provider has recorded no event of the new deletion.
C37_ResolvedOnEarlierDeleteFailure ==
  /\ workflow = "deploy"
  /\ opType = type.DELETE_STACK
  /\ awaitCalls = 1
  /\ IsError(awaitError)
  /\ polls = 1
  /\ data.stackId = "p7"
  /\ data.status = resourceStatus.DELETE_FAILED
  /\ stackEvents["p7"] = StackOf("p7").Existing

\* ------------------------------------------------------------------------
\* The status of a progress record against its stored events.
\* ------------------------------------------------------------------------

\* The status the stored events of a record stand for: unset without a
\* stack-level event, the status of the last stack-level event otherwise.
StatusOfStored(record) ==
  IF Len(StackLevel(record.events)) = 0 THEN Undefined
  ELSE Last(StackLevel(record.events)).ResourceStatus

\* C38: for a progress record that starts empty and is polled against an
\* append-only provider history, after every successful poll the record's
\* status is unset if the stored events contain no stack-level event and
\* otherwise equals the resource status of the last stack-level event in the
\* stored events.
C38_StatusIsLastStoredStackStatus ==
  workflow = "await" => data.status = StatusOfStored(data)

\* Two polls stored two stack-level events and then an event of a nested
\* resource, and the status is that of the second stack-level event.
C38_Witness ==
  /\ workflow = "await"
  /\ polls >= 2
  /\ fetchErrors = 0
  /\ pc = "timer"
  /\ Len(data.events) = 3
  /\ data.events[1].ResourceType = resourceType.STACK
  /\ data.events[2].ResourceType = resourceType.STACK
  /\ data.events[3].ResourceType = NestedType
  /\ data.events[1].ResourceStatus # data.events[2].ResourceStatus
  /\ data.status = data.events[2].ResourceStatus

\* A poll stored events of nested resources only, and the status is unset.
C38_WitnessUnset ==
  /\ workflow = "await"
  /\ polls >= 1
  /\ pc = "timer"
  /\ Len(data.events) >= 2
  /\ Len(StackLevel(data.events)) = 0
  /\ data.status = Undefined

\* ------------------------------------------------------------------------
\* Properties of the results of deploy and update.
\* ------------------------------------------------------------------------

\* result.deleteStack: the progress records of the deletions, in order.
DeleteRecords == [k \in 1..Len(result.deleteStack) |-> stackData[result.deleteStack[k]]]

\* deletePriorStacks failed while it deleted: after describePriorStacks handed
\* over its descriptions, a deleteStack call or a DELETE await called back with
\* an error.
DeletionFailed ==
  /\ workflow = "deploy"
  /\ Len(stages) > 0
  /\ Last(stages) = [stage |-> "deletePriorStacks", state |-> "failed"]
  /\ prior.del > 0

\* The error of the deletion that failed: that of the DELETE await when the
\* await of the last deletion started called back with one, that of the
\* deleteStack call otherwise.
DeletionError ==
  IF opType = type.DELETE_STACK /\ cur = Last(result.deleteStack) /\ IsError(awaitError)
  THEN awaitError
  ELSE MkError("Call to deleteStack failed", NoEvent)

\* C39: in deletePriorStacks, result.deleteStack holds one progress record for
\* exactly those prior instances whose deletion was started, in resolver order;
\* when the delete call or the DELETE await of one prior instance fails, no
\* deleteStack is issued for any later prior instance, deploy calls back with
\* that error, and the already created stack is left in place.
C39_DeletionStopsAtFirstFailure ==
  /\ []((workflow = "deploy" /\ pc # "call") =>
          /\ Len(DeleteRecords) = Len(DeleteStacks)
          /\ Len(DeleteRecords) <= Len(prior.stackDescriptions)
          /\ \A k \in 1..Len(DeleteRecords) :
               /\ DeleteRecords[k].stackId = DeleteStacks[k].id
               /\ DeleteRecords[k].stackId = prior.stackDescriptions[k].StackId
               /\ DeleteRecords[k].stackName = prior.stackDescriptions[k].StackName)
  /\ [](DeletionFailed =>
          /\ pc = "done"
          /\ userCalls = 1
          /\ userArgs.error = DeletionError
          /\ userArgs.result.errors = <<DeletionError>>
          /\ userArgs.result.deleteStack = result.deleteStack
          /\ \A k \in 1..(Len(DeleteRecords) - 1) :
               DeleteRecords[k].status = resourceStatus.DELETE_COMPLETE
          /\ Last(DeleteRecords).status # resourceStatus.DELETE_COMPLETE
          /\ \A r \in {requests[k] : k \in 1..Len(requests)} :
               r.call = "deleteStack" => r.id # "new"
          /\ StackStatusOf(stackEvents["new"]) = resourceStatus.CREATE_COMPLETE)
  /\ [][DeletionFailed => requests' = requests]_vars

\* Two prior instances were resolved, the DELETE await of the first called
\* back with an error on DELETE_FAILED, the second was never deleted, and
\* deploy called back with the error.
C39_Witness ==
  /\ DeletionFailed
  /\ Len(prior.stackDescriptions) = 2
  /\ Len(DeleteRecords) = 1
  /\ DeleteRecords[1].stackId = prior.stackDescriptions[1].StackId
  /\ DeleteRecords[1].status = resourceStatus.DELETE_FAILED
  /\ \A k \in 1..Len(requests) : requests[k].id # prior.stackDescriptions[2].StackId
                                  \/ requests[k].call # "deleteStack"
  /\ userCalls = 1
  /\ userArgs.error = awaitError
  /\ IsError(awaitError)

\* The deleteStack call of the second prior instance failed after the first
\* was deleted.
C39_WitnessCallFailed ==
  /\ DeletionFailed
  /\ Len(DeleteRecords) = 2
  /\ DeleteRecords[1].status = resourceStatus.DELETE_COMPLETE
  /\ DeleteRecords[2].status = Undefined
  /\ userArgs.error = MkError("Call to deleteStack failed", NoEvent)

\* The workflow called back without an error.
CalledBackWithoutError == userCalls = 1 /\ ~IsError(userArgs.error)

\* The progress records of result.deleteStack as the callback received them.
DeleteRecordsHandedOver ==
  [k \in 1..Len(userArgs.result.deleteStack) |->
     userArgs.stackData[userArgs.result.deleteStack[k]]]

\* C40: whenever deploy calls back without an error, createStack.stackId is
\* the id returned by createStack, createStack.status is CREATE_COMPLETE,
\* describeStack is the fetched description, and every progress record in
\* deleteStack has status DELETE_COMPLETE; whenever update calls back without
\* an error, updateStack.status is UPDATE_COMPLETE and describeStack is set.
C40_ResultOfSuccess ==
  /\ (workflow = "deploy" /\ CalledBackWithoutError) =>
       /\ userArgs.result.errors = <<>>
       /\ userArgs.stackData[1].stackId = "new"
       /\ userArgs.stackData[1].status = resourceStatus.CREATE_COMPLETE
       /\ userArgs.result.describeStack =
            [StackId |-> "new", StackName |-> determineStackName(config),
             Tags |-> getTags(config), StackStatus |-> "CREATE_COMPLETE"]
       /\ \A k \in 1..Len(DeleteRecordsHandedOver) :
            /\ DeleteRecordsHandedOver[k].status = resourceStatus.DELETE_COMPLETE
            /\ DeleteRecordsHandedOver[k].stackId # "new"
  /\ (workflow = "update" /\ CalledBackWithoutError) =>
       /\ userArgs.result.errors = <<>>
       /\ userArgs.stackData[1].status = resourceStatus.UPDATE_COMPLETE
       /\ userArgs.result.describeStack # NoDescription
       /\ userArgs.result.describeStack.StackId = userArgs.stackData[1].stackId
       /\ userArgs.result.describeStack.StackName = config.stackName

\* deploy called back without an error after it deleted two prior instances.
C40_Witness ==
  /\ workflow = "deploy"
  /\ CalledBackWithoutError
  /\ Len(DeleteRecordsHandedOver) = 2
  /\ userArgs.stackData[1].status = resourceStatus.CREATE_COMPLETE
  /\ userArgs.result.describeStack.StackId = "new"

\* update called back without an error on an UPDATE_COMPLETE the provider
\* recorded for it.
C40_WitnessUpdate ==
  /\ workflow = "update"
  /\ CalledBackWithoutError
  /\ userArgs.stackData[1].status = resourceStatus.UPDATE_COMPLETE
  /\ Len(OperationEvents(userArgs.stackData[1].stackId)) > 0
  /\ userArgs.result.describeStack.StackStatus = "UPDATE_COMPLETE"

====
